---- MODULE Spec2Model ----
(***************************************************************************)
(* Model of the external-sort pipeline of the inverted-index builder:      *)
(* the varint codec (save/src/writer.rs), the sorted posting map           *)
(* (main/src/listmap.rs), the sorted-run writer and reader and the k-way   *)
(* merger (main/src/indexed.rs).                                           *)
(*                                                                         *)
(* Files are byte sequences (1-based); a read position is the index of the *)
(* next unread byte.  The dictionary file is kept as its header and the    *)
(* sequence of its fixed-width cursor records.                             *)
(***************************************************************************)
EXTENDS Integers, Sequences, FiniteSets, TLC

VARIABLES
    vr,   \* varint codec exercise: values to save, file, read position, values loaded
    lm,   \* posting-map exercise: two maps, the index file, the last or()
    rn,   \* one sorted run: accumulator, IndexMergeSaver, files, IndexTermProvider
    mg,   \* the merger: run files, providers, heap, tasks, final saver
    tk,   \* the tokenizer: document, RepeatedXmlReader, tokens returned
    ct,   \* the controller: configuration, workers, merge, result
    rc,   \* the UTF-8 decoder: input bytes, read position, chars returned
    ps,   \* one IndexParser over one reader: accumulator, parse calls, results
    ip    \* the manifest: IndexPositions and the put calls made on it

vars == <<vr, lm, rn, mg, tk, ct, rc, ps, ip>>

(***************************************************************************)
(* Bounds of the model.                                                    *)
(***************************************************************************)
MaxSmallVarint == 16    \* every value 0..MaxSmallVarint is encoded
MaxVarints == 2         \* values written back to back into one file
MaxKey == 2             \* docIds 0..MaxKey in the posting-map exercise
MaxMapSize == 4         \* cap on the map's size counter in the exercise
MaxDoc == 2             \* docIds 0..MaxDoc in accumulators
MaxTreeTerms == 3       \* terms in one accumulator (tree_max_size)
MaxBlock == 2           \* block sizes 1..MaxBlock (lexical_max_size)
MaxRunTerms == 2        \* terms in one run handed to merge
MaxZones == 2           \* zone lists of 1..MaxZones names (attribute_order)
MaxSegments == 2        \* zone elements in one document
MaxBodyPieces == 3      \* pieces (chars or entities) in the first zone body
MaxCut == 1             \* cursor records a run's dictionary.txt may have lost
MaxFiles == 2           \* input files handed to the controller
MaxTasks == 2           \* tasks_count 0..MaxTasks
MaxFullRuns == 1        \* runs spilled because parse returned Full
MaxUtfBytes == 4        \* bytes of an input file handed to read_char
MaxInvertFiles == 3     \* input files of the zone-manifest controller
MaxInvertTasks == 3     \* its tasks_count
MaxPuts == 3            \* put calls made on one manifest
MaxParsePieces == 4     \* chars in the first zone body handed to parse
MaxCapacity == 1        \* tree_max_size 0..MaxCapacity

Min(a, b) == IF a < b THEN a ELSE b

(***************************************************************************)
(* Varint codec.                                                           *)
(***************************************************************************)
RECURSIVE SaveLoop(_, _, _)
SaveLoop(v, next, out) ==
    IF next > 0
    THEN SaveLoop(next, next \div 128, Append(out, v % 128))
    ELSE Append(out, (v % 128) + 128)

RECURSIVE SaveLoopLeb(_, _, _)
SaveLoopLeb(v, next, out) ==
    IF next > 0
    THEN SaveLoopLeb(next, next \div 128, Append(out, (v % 128) + 128))
    ELSE Append(out, v % 128)

variable_save_usizeLeb(v) == SaveLoopLeb(v, v \div 128, <<>>)

\* The bytes written for v; the returned count `writes` is their number.
variable_save_usize(v) == SaveLoop(v, v \div 128, <<>>)

variable_save_u64Leb(v) == SaveLoopLeb(v, v \div 128, <<>>)

variable_save_u64(v) == SaveLoop(v, v \div 128, <<>>)

\* `reader.read` of one byte: at end of file it returns Ok(0) and leaves the
\* one-byte buffer as it was.
ReadByte(file, pos, buf) ==
    IF pos > Len(file) THEN [n |-> 0, buf |-> buf, pos |-> pos]
    ELSE [n |-> 1, buf |-> file[pos], pos |-> pos + 1]

RECURSIVE LoadLoop(_, _, _, _, _)
LoadLoop(file, pos, cur, v, shift) ==
    IF cur >= 128
    THEN [st |-> "ok", v |-> v + (cur % 128) * (2 ^ shift), pos |-> pos]
    ELSE IF pos > Len(file)
         \* every further read returns 0 bytes and the buffer keeps a byte
         \* with the high bit clear: the loop never reaches its break (with
         \* overflow checks the shift panics once it reaches the word width)
         THEN [st |-> "eof", v |-> v, pos |-> pos]
         ELSE LoadLoop(file, pos + 1, file[pos], v + cur * (2 ^ shift), shift + 7)

variable_load(file, pos) ==
    LET r == ReadByte(file, pos, 0)
    IN  IF r.n = 0 THEN [st |-> "eof", v |-> 0, pos |-> pos]
        ELSE LoadLoop(file, r.pos, r.buf, 0, 0)

(***************************************************************************)
(* Posting (UsageData) and its derived VariableSave.                       *)
(***************************************************************************)
UsageData(c, s) == [use_count |-> c, segments |-> s]

UsageData_variable_save(u) == variable_save_usize(u.use_count) \o <<u.segments>>

CommonSegments_variable_load(file, pos) ==
    LET r == ReadByte(file, pos, 0)
    IN  [st |-> "ok", v |-> r.buf, pos |-> r.pos]

UsageData_variable_load(file, pos) ==
    LET c == variable_load(file, pos)
    IN  IF c.st # "ok" THEN c
        ELSE LET s == CommonSegments_variable_load(file, c.pos)
             IN  [st |-> "ok", v |-> UsageData(c.v, s.v), pos |-> s.pos]

(***************************************************************************)
(* SortedLinkedMap: the chain of nodes as a sequence, and the size field.  *)
(***************************************************************************)
Value(k, v) == [k |-> k, v |-> v]

SortedLinkedMap_new == [start |-> <<>>, size |-> 0]

InsertAt(s, i, e) == SubSeq(s, 1, i - 1) \o <<e>> \o SubSeq(s, i, Len(s))

\* The node the walk of push stops at: the first whose successor is None or
\* whose key is >= key.
PushStop(s, key) ==
    CHOOSE i \in 1..Len(s) :
        /\ (i = Len(s) \/ key <= s[i].k)
        /\ \A j \in 1..(i - 1) : key > s[j].k

pushInsertAfter(m, key, value) ==
    IF m.start = <<>>
    THEN [start |-> <<Value(key, value)>>, size |-> m.size + 1]
    ELSE [start |-> Append(m.start, Value(key, value)), size |-> m.size + 1]

push(m, key, value) ==
    IF m.start = <<>>
    THEN [start |-> <<Value(key, value)>>, size |-> m.size + 1]
    ELSE LET s == m.start
             i == PushStop(s, key)
         IN  IF i < Len(s)
             THEN IF key < s[i].k
                  THEN [start |-> InsertAt(s, i, Value(key, value)), size |-> m.size + 1]
                  ELSE m
             ELSE IF key < s[i].k
                  THEN [start |-> InsertAt(s, i, Value(key, value)), size |-> m.size + 1]
                  ELSE IF key > s[i].k
                       THEN [start |-> Append(s, Value(key, value)), size |-> m.size + 1]
                       ELSE [start |-> s, size |-> m.size + 1]

len(m) == m.size

\* iter / iter_mut: the entries in chain order.
iter(m) == m.start

Keys(m) == [i \in 1..Len(m.start) |-> m.start[i].k]

\* The trailing loop of or(): every remaining node of the other chain is
\* stored into fc.2 of the same fc, each replacing the one before.
OrTail(a, fi, s, size) ==
    IF s = <<>> THEN [start |-> a, size |-> size]
    ELSE [start |-> SubSeq(a, 1, fi) \o <<Value(s[Len(s)].k, s[Len(s)].v)>>,
          size |-> size + Len(s)]

RECURSIVE OrInner(_, _, _, _)
\* The inner loop: while the other chain's head is smaller than fc's key it
\* is put in fc's node, fc's old content moves to a new node after it, and
\* fc moves to that node.
OrInner(a, fi, s, size) ==
    IF s # <<>> /\ a[fi].k > s[1].k
    THEN OrInner(InsertAt(a, fi, Value(s[1].k, s[1].v)), fi + 1, Tail(s), size + 1)
    ELSE [a |-> a, fi |-> fi, s |-> s, size |-> size]

\* The combinator IndexedTerm::combine passes to or(): the closure |_, _| {}
\* leaves the posting already in the map as it is.
CombineClosure(f, s) == f

\* Calling the fn pointer `map`; "combine" names the closure above, the only
\* one the program passes.
CallMap(map, f, s) == CASE map = "combine" -> CombineClosure(f, s)

RECURSIVE OrOuter(_, _, _, _, _)
OrOuter(a, fi, s, size, map) ==
    IF s = <<>> THEN OrTail(a, fi, s, size)
    ELSE LET r == OrInner(a, fi, s, size)
             eq == r.s # <<>> /\ r.a[r.fi].k = r.s[1].k
             a2 == IF eq THEN [r.a EXCEPT ![r.fi].v = CallMap(map, r.a[r.fi].v, r.s[1].v)]
                   ELSE r.a
             s2 == IF eq THEN Tail(r.s) ELSE r.s
         IN  IF r.fi < Len(a2)
             THEN OrOuter(a2, r.fi + 1, s2, r.size, map)
             ELSE OrTail(a2, r.fi, s2, r.size)

\* self.or(oth, map): panics (unwrap of None) when self is empty.
or(m, oth, map) ==
    IF m.start = <<>> THEN [st |-> "panic", m |-> m]
    ELSE [st |-> "ok", m |-> OrOuter(m.start, 1, oth.start, m.size, map)]


(***************************************************************************)
(* VariableSave for SortedLinkedMap<usize, UsageData>.                     *)
(***************************************************************************)
RECURSIVE SaveEntries(_, _)
\* The for loop of variable_save from entry i on: the delta to entry i, then
\* the posting of entry i-1.
SaveEntries(s, i) ==
    IF i > Len(s) THEN <<>>
    ELSE variable_save_usize(s[i].k - s[i - 1].k)
         \o UsageData_variable_save(s[i - 1].v)
         \o SaveEntries(s, i + 1)

\* The bytes written; on an empty map the count is written and
\* iter.next().unwrap() panics.
SortedLinkedMap_variable_save(m) ==
    IF m.start = <<>>
    THEN [st |-> "panic", bytes |-> variable_save_usize(len(m))]
    ELSE [st |-> "ok",
          bytes |-> variable_save_usize(len(m))
                    \o variable_save_usize(m.start[1].k)
                    \o SaveEntries(m.start, 2)]

RECURSIVE LoadEntries(_, _, _, _, _)
\* `n` more entries to load after the first: previous += delta, then the posting.
LoadEntries(file, pos, list, previous, n) ==
    IF n = 0 THEN [st |-> "ok", v |-> list, pos |-> pos]
    ELSE LET d == variable_load(file, pos)
         IN  IF d.st # "ok" THEN [st |-> d.st, v |-> list, pos |-> d.pos]
             ELSE LET u == UsageData_variable_load(file, d.pos)
                  IN  IF u.st # "ok" THEN [st |-> u.st, v |-> list, pos |-> u.pos]
                      ELSE LoadEntries(file, u.pos, push(list, previous + d.v, u.v),
                                       previous + d.v, n - 1)

SortedLinkedMap_variable_load(file, pos) ==
    LET size == variable_load(file, pos)
    IN  IF size.st # "ok" THEN [st |-> size.st, v |-> SortedLinkedMap_new, pos |-> size.pos]
        ELSE IF size.v = 0 THEN [st |-> "ok", v |-> SortedLinkedMap_new, pos |-> size.pos]
        ELSE LET previous == variable_load(file, size.pos)
             IN  IF previous.st # "ok"
                 THEN [st |-> previous.st, v |-> SortedLinkedMap_new, pos |-> previous.pos]
                 ELSE LET u == UsageData_variable_load(file, previous.pos)
                      IN  IF u.st # "ok"
                          THEN [st |-> u.st, v |-> SortedLinkedMap_new, pos |-> u.pos]
                          ELSE LoadEntries(file, u.pos,
                                           push(SortedLinkedMap_new, previous.v, u.v),
                                           previous.v, size.v - 1)


(***************************************************************************)
(* Terms.  A term string is its UTF-8 byte sequence.                       *)
(***************************************************************************)
IndexedTerm(term, use_count, indexes) ==
    [term |-> term, use_count |-> use_count, indexes |-> indexes]

\* Number of bytes of the character a lead byte starts (read_char_reader);
\* for a valid string it is the char's len_utf8.
CharLen(b) == IF b >= 240 THEN 4 ELSE IF b >= 224 THEN 3 ELSE IF b >= 192 THEN 2 ELSE 1

\* Byte-wise lexicographic order of strings (Ord for String).
RECURSIVE StrLess(_, _)
StrLess(f, s) ==
    IF s = <<>> THEN FALSE
    ELSE IF f = <<>> THEN TRUE
    ELSE IF f[1] # s[1] THEN f[1] < s[1]
    ELSE StrLess(Tail(f), Tail(s))

RECURSIVE count_same_from(_, _, _)
\* The chars of both strings are compared in step from byte offset i.
count_same_from(f, s, i) ==
    IF i >= Len(f) \/ i >= Len(s) THEN i
    ELSE LET n == CharLen(f[i + 1])
             m == CharLen(s[i + 1])
         IN  IF n = m /\ i + n <= Len(f) /\ i + n <= Len(s)
                /\ SubSeq(f, i + 1, i + n) = SubSeq(s, i + 1, i + n)
             THEN count_same_from(f, s, i + n)
             ELSE i

\* Counts the first differing char as well.
count_sameCountsMismatch(f, s) ==
    LET i == count_same_from(f, s, 0)
    IN  IF i < Len(f) /\ i < Len(s) THEN i + CharLen(f[i + 1]) ELSE i

count_same(f, s) == count_same_from(f, s, 0)

(***************************************************************************)
(* IndexMergeSaver: the writer of a sorted run and of the final dictionary.*)
(***************************************************************************)
IndexedCursor(lexical_pointer, lexical_index, indexes_pointer, use_count) ==
    [lexical_pointer |-> lexical_pointer, lexical_index |-> lexical_index % 256,
     indexes_pointer |-> indexes_pointer, use_count |-> use_count]

\* CountedWriter::passed of a writer whose bytes so far are `file`.
passed(file) == Len(file)

IndexMergeSaver_new(max_size) ==
    [st |-> "ok", buffer_items |-> <<>>, current_substr_size |-> 0,
     max_part_size |-> max_size, current_directory_size |-> 0,
     header |-> 0, cursors |-> <<>>, lexical_part |-> <<>>, index_part |-> <<>>]

RECURSIVE FlushItems(_, _, _, _)
\* The for loop of flush over items[i..]: the cursor, the postings, the suffix.
FlushItems(sv, items, i, lexical_pointer) ==
    IF i > Len(items) THEN sv
    ELSE LET v == items[i]
             idx == SortedLinkedMap_variable_save(v.indexes)
             cur == IndexedCursor(lexical_pointer, i - 1, passed(sv.index_part),
                                  v.use_count)
         IN  IF idx.st = "panic" \/ sv.current_substr_size > Len(v.term)
             THEN [sv EXCEPT !.st = "panic", !.cursors = Append(sv.cursors, cur),
                             !.index_part = sv.index_part \o idx.bytes]
             ELSE LET other_part == SubSeq(v.term, sv.current_substr_size + 1, Len(v.term))
                  IN  FlushItems(
                        [sv EXCEPT !.cursors = Append(sv.cursors, cur),
                                   !.index_part = sv.index_part \o idx.bytes,
                                   !.lexical_part = sv.lexical_part
                                       \o variable_save_u64(Len(other_part))
                                       \o other_part],
                        items, i + 1, lexical_pointer)

flush(sv) ==
    IF Len(sv.buffer_items) = 0 THEN sv
    ELSE LET items == sv.buffer_items
             lexical_pointer == passed(sv.lexical_part)
         IN  IF sv.current_substr_size > Len(items[1].term)
             THEN [sv EXCEPT !.st = "panic", !.buffer_items = <<>>]
             ELSE FlushItems(
                    [sv EXCEPT !.buffer_items = <<>>,
                               !.lexical_part = sv.lexical_part
                                   \o variable_save_u64(sv.current_substr_size)
                                   \o SubSeq(items[1].term, 1, sv.current_substr_size)],
                    items, 1, lexical_pointer)

\* The tail of IndexMergeSaver::push after the buffer was dealt with.
PushTail(sv, term) ==
    IF sv.st # "ok" THEN sv
    ELSE [sv EXCEPT !.buffer_items = Append(sv.buffer_items, term),
                    !.current_directory_size = sv.current_directory_size + 1]

\* The prefix length is kept when a full buffer is flushed.
IndexMergeSaver_pushKeepPrefix(sv, term) ==
    IF Len(sv.buffer_items) = sv.max_part_size
    THEN PushTail(flush(sv), term)
    ELSE IF Len(sv.buffer_items) > 0
    THEN LET n == Len(sv.buffer_items)
             last == sv.buffer_items[n]
             size == count_same(last.term, term.term)
         IN  IF size > sv.current_substr_size
             THEN LET f == flush([sv EXCEPT !.buffer_items = SubSeq(sv.buffer_items, 1, n - 1)])
                  IN  PushTail(IF f.st # "ok" THEN f
                               ELSE [f EXCEPT !.current_substr_size = size,
                                              !.buffer_items = <<last>>], term)
             ELSE IF n * sv.current_substr_size < (n + 1) * size
             THEN PushTail([sv EXCEPT !.current_substr_size = size], term)
             ELSE PushTail([flush(sv) EXCEPT !.current_substr_size = 0], term)
    ELSE PushTail([sv EXCEPT !.current_substr_size = 0], term)

\* The buffer is flushed only once it holds more than max_part_size terms.
IndexMergeSaver_pushOverFull(sv, term) ==
    IF Len(sv.buffer_items) > sv.max_part_size
    THEN PushTail([flush(sv) EXCEPT !.current_substr_size = 0], term)
    ELSE IF Len(sv.buffer_items) > 0
    THEN LET n == Len(sv.buffer_items)
             last == sv.buffer_items[n]
             size == count_same(last.term, term.term)
         IN  IF size > sv.current_substr_size
             THEN LET f == flush([sv EXCEPT !.buffer_items = SubSeq(sv.buffer_items, 1, n - 1)])
                  IN  PushTail(IF f.st # "ok" THEN f
                               ELSE [f EXCEPT !.current_substr_size = size,
                                              !.buffer_items = <<last>>], term)
             ELSE IF n * sv.current_substr_size < (n + 1) * size
             THEN PushTail([sv EXCEPT !.current_substr_size = size], term)
             ELSE PushTail([flush(sv) EXCEPT !.current_substr_size = 0], term)
    ELSE PushTail([sv EXCEPT !.current_substr_size = 0], term)

IndexMergeSaver_push(sv, term) ==
    IF Len(sv.buffer_items) = sv.max_part_size
    THEN PushTail([flush(sv) EXCEPT !.current_substr_size = 0], term)
    ELSE IF Len(sv.buffer_items) > 0
    THEN LET n == Len(sv.buffer_items)
             last == sv.buffer_items[n]
             size == count_same(last.term, term.term)
         IN  IF size > sv.current_substr_size
             THEN LET f == flush([sv EXCEPT !.buffer_items = SubSeq(sv.buffer_items, 1, n - 1)])
                  IN  PushTail(IF f.st # "ok" THEN f
                               ELSE [f EXCEPT !.current_substr_size = size,
                                              !.buffer_items = <<last>>], term)
             ELSE IF n * sv.current_substr_size < (n + 1) * size
             THEN PushTail([sv EXCEPT !.current_substr_size = size], term)
             ELSE PushTail([flush(sv) EXCEPT !.current_substr_size = 0], term)
    ELSE PushTail([sv EXCEPT !.current_substr_size = 0], term)

\* finish: flush, then the header is overwritten with the term count.
finish(sv) ==
    LET f == flush(sv)
    IN  IF f.st # "ok" THEN f
        ELSE [f EXCEPT !.header = f.current_directory_size]

\* The three files of a directory as a reader finds them.
Files(sv) ==
    [header |-> sv.header, cursors |-> sv.cursors,
     lexical_part |-> sv.lexical_part, index_part |-> sv.index_part]

RECURSIVE PushAll(_, _, _)
PushAll(sv, tree, i) ==
    IF i > Len(tree) \/ sv.st # "ok" THEN sv
    ELSE PushAll(IndexMergeSaver_push(sv, tree[i]), tree, i + 1)

\* IndexParser::flush_to: `tree` is the b_tree in iteration (key) order.
flush_to(tree, lexical_max_size) ==
    finish(PushAll(IndexMergeSaver_new(lexical_max_size), tree, 1))

(***************************************************************************)
(* IndexTermProvider: the sequential reader of a run.                      *)
(***************************************************************************)
\* first_part_pointer is None before the first term: -1 here.
IndexTermProvider_new(files) ==
    [dictionary |-> files, first_part |-> <<>>, first_part_pointer |-> -1,
     remaining_size |-> files.header,
     pointer_pos |-> 1, lexical_pos |-> 1, index_pos |-> 1]

RECURSIVE ReadChars(_, _, _, _)
\* while skip > 0 { next_char = read_char_reader()?; skip -= len_utf8; push }
\* "err" is read_exact's UnexpectedEof; "panic" the usize underflow of skip.
ReadChars(file, pos, skip, acc) ==
    IF skip = 0 THEN [st |-> "ok", v |-> acc, pos |-> pos]
    ELSE IF pos > Len(file) THEN [st |-> "err", v |-> acc, pos |-> pos]
    ELSE LET n == CharLen(file[pos])
         IN  IF pos + n - 1 > Len(file) THEN [st |-> "err", v |-> acc, pos |-> pos]
             ELSE IF n > skip THEN [st |-> "panic", v |-> acc, pos |-> pos]
             ELSE ReadChars(file, pos + n, skip - n,
                            acc \o SubSeq(file, pos, pos + n - 1))

\* A length-prefixed string of lexical_part: varint length, then the chars.
ReadPart(file, pos) ==
    LET skip == variable_load(file, pos)
    IN  IF skip.st # "ok" THEN [st |-> skip.st, v |-> <<>>, pos |-> skip.pos]
        ELSE ReadChars(file, skip.pos, skip.v, <<>>)

\* next_term: [st, term, pv].  st is "some", "none" (None returned: the run is
\* exhausted, or a read failed and `.ok()?` turned the error into None), or
\* "eof"/"panic" when the call does not return.
next_term(pv) ==
    IF pv.remaining_size = 0 THEN [st |-> "none", pv |-> pv]
    ELSE IF pv.pointer_pos > Len(pv.dictionary.cursors) THEN [st |-> "none", pv |-> pv]
    ELSE
      LET next == pv.dictionary.cursors[pv.pointer_pos]
          p0 == [pv EXCEPT !.pointer_pos = pv.pointer_pos + 1]
          fresh == pv.first_part_pointer = -1
                   \/ pv.first_part_pointer # next.lexical_pointer
          fp == IF fresh THEN ReadPart(pv.dictionary.lexical_part, pv.lexical_pos)
                ELSE [st |-> "ok", v |-> pv.first_part, pos |-> pv.lexical_pos]
          p1 == [p0 EXCEPT !.first_part = fp.v,
                           !.first_part_pointer = next.lexical_pointer,
                           !.lexical_pos = fp.pos]
      IN  IF fp.st = "err" THEN [st |-> "none", pv |-> p1]
          ELSE IF fp.st # "ok" THEN [st |-> fp.st, pv |-> p1]
          ELSE
            LET sfx == ReadPart(pv.dictionary.lexical_part, fp.pos)
                p2 == [p1 EXCEPT !.lexical_pos = sfx.pos]
            IN  IF sfx.st = "err" THEN [st |-> "none", pv |-> p2]
                ELSE IF sfx.st # "ok" THEN [st |-> sfx.st, pv |-> p2]
                ELSE
                  LET ix == SortedLinkedMap_variable_load(pv.dictionary.index_part,
                                                          pv.index_pos)
                      p3 == [p2 EXCEPT !.index_pos = ix.pos]
                  IN  IF ix.st # "ok" THEN [st |-> ix.st, pv |-> p3]
                      ELSE [st |-> "some",
                            term |-> IndexedTerm(fp.v \o sfx.v, next.use_count, ix.v),
                            pv |-> [p3 EXCEPT !.remaining_size = pv.remaining_size - 1]]

(***************************************************************************)
(* The tokenizer.  A document is a sequence of chars (read_char's UTF-8    *)
(* decoding is left out: every char here is one ASCII byte); a String is   *)
(* a sequence of chars.  "NUL" stands for the char '\0'.                   *)
(***************************************************************************)
Uppercase == {"A", "B", "H"}

Alphabetic ==
    Uppercase \cup {"a", "b", "d", "e", "g", "h", "i", "l", "m", "n", "o", "p",
                    "q", "s", "t", "u", "x"}

\* char::to_lowercase
to_lowercase(c) ==
    CASE c = "A" -> <<"a">> [] c = "B" -> <<"b">> [] c = "H" -> <<"h">>
      [] OTHER -> <<c>>

DelimiterChars ==
    {",", ".", ";", "(", ")", "\"", "|", "/", "=", "-", "+", "*", "<", ">",
     "{", "}", "[", "]", ":", "!", "?"}

is_whitespace(c) == c \in {" ", "\n", "\t"}

is_ascii_digit(c) == c \in {"0", "1", "2", "3", "4", "5", "6", "7", "8", "9"}

\* CommCharInterpreter::interpret_character
interpret_character(c) ==
    IF c \in Alphabetic THEN [type |-> "Letter", chars |-> to_lowercase(c)]
    ELSE IF is_whitespace(c) \/ is_ascii_digit(c) \/ c \in DelimiterChars
    THEN [type |-> "Delimiter", chars |-> <<c>>]
    ELSE IF c = "NUL" THEN [type |-> "EOF", chars |-> <<>>]
    ELSE [type |-> "Ordinary", chars |-> <<c>>]

\* passable: not empty and holding at least one Letter.
passable(str) ==
    \E i \in 1..Len(str) : interpret_character(str[i]).type = "Letter"

AMP == <<"&", "a", "m", "p">>
APOS == <<"&", "a", "p", "o", "s">>
GT == <<"&", "g", "t">>
LT == <<"&", "l", "t">>
QUOT == <<"&", "q", "u", "o", "t">>

ends_with(str, sfx) ==
    Len(str) >= Len(sfx) /\ SubSeq(str, Len(str) - Len(sfx) + 1, Len(str)) = sfx

\* start.delete_char_range(start.len() - n..start.len())
delete_tail(str, n) == SubSeq(str, 1, Len(str) - n)

\* The end of XmlWordProvider::next_word, after the loop.
WordEnd(start, pos, previous) ==
    IF passable(start)
    THEN [st |-> "Word", w |-> start, pos |-> pos, previous |-> previous]
    ELSE [st |-> "None", w |-> <<>>, pos |-> pos, previous |-> previous]

\* What the ';' branch leaves in `start`, and whether it may break.
SemicolonStart(start) ==
    IF ends_with(start, APOS)
    THEN [start |-> Append(delete_tail(start, 5), "'"), may_break |-> FALSE]
    ELSE IF ends_with(start, AMP) THEN [start |-> delete_tail(start, 4), may_break |-> TRUE]
    ELSE IF ends_with(start, GT) THEN [start |-> delete_tail(start, 3), may_break |-> TRUE]
    ELSE IF ends_with(start, LT) THEN [start |-> delete_tail(start, 3), may_break |-> TRUE]
    ELSE IF ends_with(start, QUOT) THEN [start |-> delete_tail(start, 5), may_break |-> TRUE]
    ELSE [start |-> start, may_break |-> TRUE]

RECURSIVE XmlWordProvider_next_word(_, _, _, _)
\* XmlWordProvider::next_word(reader, start): [st, w, pos, previous] with st
\* "Word", "Empty" or "None"; previous = "" is None.
XmlWordProvider_next_word(file, pos, start, previous) ==
    IF pos > Len(file) THEN WordEnd(start, pos, previous)
    ELSE
      LET c == file[pos]
          t == interpret_character(c)
      IN  CASE t.type \in {"Letter", "Ordinary"} ->
                 XmlWordProvider_next_word(file, pos + 1, start \o t.chars, previous)
            [] t.type = "EOF" -> WordEnd(start, pos + 1, "NUL")
            [] t.type = "Delimiter" ->
                 IF c = "<"
                 THEN [st |-> "Empty", w |-> <<>>, pos |-> pos + 1, previous |-> "<"]
                 ELSE IF c = ";"
                 THEN LET r == SemicolonStart(start)
                      IN  IF r.may_break /\ passable(r.start)
                          THEN WordEnd(r.start, pos + 1, ";")
                          ELSE XmlWordProvider_next_word(file, pos + 1, <<>>, ";")
                 ELSE IF passable(start)
                 THEN WordEnd(start, pos + 1, c)
                 ELSE XmlWordProvider_next_word(file, pos + 1, <<>>, previous)

\* RepeatedXmlReader::new; the zone list is not empty.
RepeatedXmlReader_new(file, attribute_order) ==
    [file |-> file, pos |-> 1, previous |-> "", position |-> "Outside",
     attribute_order |-> attribute_order, attribute_index |-> 0]

\* while read_char(reader)? != '>' {}: the position after the next '>', 0 at
\* the end of the file.
SkipPast(file, pos) ==
    LET hit == {p \in pos..Len(file) : file[p] = ">"}
    IN  IF hit = {} THEN 0 ELSE 1 + CHOOSE p \in hit : \A q \in hit : p <= q

\* `?` on a None: next_word returns None.
ReturnNone(r) == [res |-> [kind |-> "None"], r |-> r]

RECURSIVE RepeatedXmlReader_next_word(_, _)
\* RepeatedXmlReader::next_word with current_attribute = cur: [res, r], res
\* a Word, AttributeEnd or None.
RepeatedXmlReader_next_word(r, cur) ==
    IF r.position = "Outside"
    THEN
      IF r.pos > Len(r.file) THEN ReturnNone(r)
      ELSE IF r.file[r.pos] # "<"
      THEN RepeatedXmlReader_next_word([r EXCEPT !.pos = r.pos + 1], cur)
      ELSE IF r.pos + 1 > Len(r.file) THEN ReturnNone([r EXCEPT !.pos = r.pos + 1])
      ELSE
        LET c == r.file[r.pos + 1]
        IN  IF c = "/"
            THEN LET p == SkipPast(r.file, r.pos + 2)
                 IN  IF p = 0 THEN ReturnNone([r EXCEPT !.pos = Len(r.file) + 1])
                     ELSE RepeatedXmlReader_next_word([r EXCEPT !.pos = p], cur)
            ELSE
              LET str == XmlWordProvider_next_word(
                             r.file, r.pos + 2, IF c = " " THEN <<>> ELSE <<c>>,
                             r.previous)
                  r1 == [r EXCEPT !.pos = str.pos, !.previous = str.previous]
              IN  IF str.st = "None" THEN ReturnNone(r1)
                  ELSE IF str.st = "Word" /\ str.w = cur
                  THEN LET p == IF r1.previous = ">" THEN r1.pos
                                ELSE SkipPast(r1.file, r1.pos)
                       IN  IF p = 0
                           THEN ReturnNone([r1 EXCEPT !.previous = "",
                                                      !.pos = Len(r.file) + 1])
                           ELSE RepeatedXmlReader_next_word(
                                    [r1 EXCEPT !.previous = "", !.pos = p,
                                               !.position = "Inside"], cur)
                  ELSE RepeatedXmlReader_next_word(r1, cur)
    ELSE
      IF r.previous = "" /\ r.pos > Len(r.file) THEN ReturnNone(r)
      ELSE
        LET next == IF r.previous # "" THEN r.previous ELSE r.file[r.pos]
            r0 == IF r.previous # "" THEN [r EXCEPT !.previous = ""]
                  ELSE [r EXCEPT !.pos = r.pos + 1]
            t == interpret_character(next)
        IN  CASE t.type \in {"Letter", "Ordinary"} ->
                   LET w == XmlWordProvider_next_word(r0.file, r0.pos, t.chars,
                                                      r0.previous)
                       r1 == [r0 EXCEPT !.pos = w.pos, !.previous = w.previous]
                   IN  IF w.st = "None" THEN ReturnNone(r1)
                       ELSE IF w.st = "Word"
                       THEN [res |-> [kind |-> "Word", w |-> w.w], r |-> r1]
                       ELSE RepeatedXmlReader_next_word(r1, cur)
              [] t.type = "Delimiter" ->
                   IF next # "<" THEN RepeatedXmlReader_next_word(r0, cur)
                   ELSE IF r0.pos > Len(r0.file) THEN ReturnNone(r0)
                   ELSE IF r0.file[r0.pos] # "/"
                   THEN RepeatedXmlReader_next_word([r0 EXCEPT !.pos = r0.pos + 1], cur)
                   ELSE
                     LET w == XmlWordProvider_next_word(r0.file, r0.pos + 1, <<>>,
                                                        r0.previous)
                         r1 == [r0 EXCEPT !.pos = w.pos, !.previous = w.previous]
                     IN  IF w.st = "None" THEN ReturnNone(r1)
                         ELSE IF w.st = "Word" /\ w.w = cur
                         THEN [res |-> [kind |-> "AttributeEnd"],
                               r |-> [r1 EXCEPT !.position = "Outside"]]
                         ELSE RepeatedXmlReader_next_word(r1, cur)
              [] t.type = "EOF" -> [res |-> [kind |-> "None"], r |-> r0]

\* Does not wrap around.
transform_zoneNoWrap(r) ==
    [r EXCEPT !.attribute_index = r.attribute_index + 1]

\* ZoneRepeatedReader::transform_zone
transform_zone(r) ==
    [r EXCEPT !.attribute_index = (r.attribute_index + 1) % Len(r.attribute_order)]

\* ZoneRepeatedReader::zone
zone(r) == r.attribute_order[r.attribute_index + 1]

zones_len(r) == Len(r.attribute_order)

(***************************************************************************)
(* Idle values of the parts a specification does not exercise.             *)
(***************************************************************************)
IdleVr == [pc |-> "idle"]
IdleLm == [pc |-> "idle"]
IdleRn == [pc |-> "idle"]
IdleMg == [pc |-> "idle"]
IdleTk == [pc |-> "idle"]
IdleCt == [pc |-> "idle"]
IdleRc == [pc |-> "idle"]
IdlePs == [pc |-> "idle"]
IdleIp == [pc |-> "idle"]

(***************************************************************************)
(* SpecVarint: values are written back to back into one file with          *)
(* variable_save_u64 / variable_save_usize and read back with              *)
(* variable_load.  Values are kept below 2^31 (the checker's integers);    *)
(* the code's u64/usize arithmetic does not overflow on them.              *)
(***************************************************************************)
VarintEdges == {128, 16384, 2097152, 268435456}

VarintValues ==
    (0..MaxSmallVarint) \cup {x - 1 : x \in VarintEdges} \cup VarintEdges
    \cup {x + 1 : x \in VarintEdges} \cup {255, 2147483647}

VarintInit ==
    /\ \E n \in 1..MaxVarints : \E input \in [1..n -> VarintValues] :
          vr = [pc |-> "save", input |-> input, file |-> <<>>, ends |-> <<>>,
                pos |-> 1, out |-> <<>>]
    /\ lm = IdleLm /\ rn = IdleRn /\ mg = IdleMg
    /\ tk = IdleTk /\ ct = IdleCt
    /\ rc = IdleRc /\ ps = IdlePs /\ ip = IdleIp

\* CountedWriter::push_variable_u64: the next value is appended to the file.
VarintSaveU64 ==
    /\ vr.pc = "save"
    /\ Len(vr.ends) < Len(vr.input)
    /\ LET bytes == variable_save_u64(vr.input[Len(vr.ends) + 1])
       IN  vr' = [vr EXCEPT !.file = vr.file \o bytes,
                            !.ends = Append(vr.ends, Len(vr.file) + Len(bytes))]
    /\ UNCHANGED <<lm, rn, mg, tk, ct, rc, ps, ip>>

\* The same through variable_save_usize.
VarintSaveUsize ==
    /\ vr.pc = "save"
    /\ Len(vr.ends) < Len(vr.input)
    /\ LET bytes == variable_save_usize(vr.input[Len(vr.ends) + 1])
       IN  vr' = [vr EXCEPT !.file = vr.file \o bytes,
                            !.ends = Append(vr.ends, Len(vr.file) + Len(bytes))]
    /\ UNCHANGED <<lm, rn, mg, tk, ct, rc, ps, ip>>

\* The writer is flushed and the file reopened for reading.
VarintReopen ==
    /\ vr.pc = "save"
    /\ Len(vr.ends) = Len(vr.input)
    /\ vr' = [vr EXCEPT !.pc = "load"]
    /\ UNCHANGED <<lm, rn, mg, tk, ct, rc, ps, ip>>

\* One variable_load at the current read position.
VarintLoad ==
    /\ vr.pc = "load"
    /\ Len(vr.out) < Len(vr.input)
    /\ LET r == variable_load(vr.file, vr.pos)
       IN  vr' = [vr EXCEPT !.out = Append(vr.out, r),
                            !.pos = r.pos,
                            !.pc = IF r.st = "ok" THEN "load" ELSE "stuck"]
    /\ UNCHANGED <<lm, rn, mg, tk, ct, rc, ps, ip>>

VarintNext == VarintSaveU64 \/ VarintSaveUsize \/ VarintReopen \/ VarintLoad

SpecVarint == VarintInit /\ [][VarintNext]_vars

\* C10: decoding the bytes the encoder produced for n yields n and leaves
\* the read position exactly after the bytes written for n, for every value
\* written (alone or followed by another varint).
C10_VarintRoundTrip ==
    vr.pc \in {"load", "stuck"} =>
        \A i \in 1..Len(vr.out) :
            /\ vr.out[i].st = "ok"
            /\ vr.out[i].v = vr.input[i]
            /\ vr.out[i].pos = vr.ends[i] + 1

\* Two values were written and read back, the first of them in several bytes.
C10_Witness ==
    /\ vr.pc = "load"
    /\ Len(vr.out) = 2
    /\ vr.input[1] >= 16384
    /\ vr.ends[1] = 3

\* Where the bytes of value i start in the file.
VarintStart(i) == IF i = 1 THEN 1 ELSE vr.ends[i - 1] + 1

\* C12: of the bytes written for a value the last has its high bit set and
\* every earlier one has it clear; byte j carries the j-th group of 7 bits,
\* least significant first; and the decoder stops right after the first
\* byte whose high bit is set.
C12_VarintByteLayout ==
    /\ vr.pc \in {"save", "load", "stuck"} =>
         \A i \in 1..Len(vr.ends) :
            LET n == vr.ends[i] - VarintStart(i) + 1
                byte(j) == vr.file[VarintStart(i) + j - 1]
            IN  /\ n >= 1
                /\ byte(n) >= 128
                /\ \A j \in 1..(n - 1) : byte(j) < 128
                /\ \A j \in 1..n :
                      byte(j) % 128 = (vr.input[i] \div (128 ^ (j - 1))) % 128
                /\ vr.input[i] \div (128 ^ (n - 1)) < 128
    /\ vr.pc \in {"load", "stuck"} =>
         \A i \in 1..Len(vr.out) :
            /\ vr.out[i].st = "ok"
            /\ vr.file[vr.out[i].pos - 1] >= 128
            /\ \A p \in VarintStart(i)..(vr.out[i].pos - 2) : vr.file[p] < 128

\* 129 was written as the bytes 1, 0x80 | 1 and read back, then a second value.
C12_Witness ==
    /\ vr.pc = "load" /\ Len(vr.out) = 2
    /\ vr.input[1] = 129
    /\ SubSeq(vr.file, 1, 2) = <<1, 129>>
    /\ vr.out[1].pos = 3


(***************************************************************************)
(* The codec on full-width values.  A u64 is held as its groups of 7 bits, *)
(* least significant first (the last group has the one bit left over), so  *)
(* that v >> 7 and v & 0b111_1111 are computed on all 64 bits.             *)
(***************************************************************************)
U64Bits == 64

GroupCount == (U64Bits + 6) \div 7

\* v >> 7
WideShr7(v) == [i \in 1..GroupCount |-> IF i < GroupCount THEN v[i + 1] ELSE 0]

\* v & 0b111_1111
WideLow7(v) == v[1]

WideIsZero(v) == \A i \in 1..GroupCount : v[i] = 0

RECURSIVE SaveLoopWideOnV(_, _, _)
\* Loops while v > 0 instead of next > 0.
SaveLoopWideOnV(v, next, out) ==
    IF ~WideIsZero(v)
    THEN SaveLoopWideOnV(next, WideShr7(next), Append(out, WideLow7(v)))
    ELSE Append(out, WideLow7(v) + 128)

RECURSIVE SaveLoopWide(_, _, _)
SaveLoopWide(v, next, out) ==
    IF ~WideIsZero(next)
    THEN SaveLoopWide(next, WideShr7(next), Append(out, WideLow7(v)))
    ELSE Append(out, WideLow7(v) + 128)

variable_save_u64_wideOnV(v) == SaveLoopWideOnV(v, WideShr7(v), <<>>)

variable_save_u64_wide(v) == SaveLoopWide(v, WideShr7(v), <<>>)

WideZero == [i \in 1..GroupCount |-> 0]

RECURSIVE LoadLoopWide(_, _, _, _, _)
\* v += (byte as usize) << shift, with shift = 7 * (g - 1): group g of v.
LoadLoopWide(file, pos, cur, v, g) ==
    IF cur >= 128
    THEN [st |-> "ok",
          v |-> IF g <= GroupCount THEN [v EXCEPT ![g] = cur % 128] ELSE v,
          pos |-> pos]
    ELSE IF pos > Len(file) \/ g > GroupCount
         THEN [st |-> "eof", v |-> v, pos |-> pos]
         ELSE LoadLoopWide(file, pos + 1, file[pos], [v EXCEPT ![g] = cur], g + 1)

variable_load_wide(file, pos) ==
    LET r == ReadByte(file, pos, 0)
    IN  IF r.n = 0 THEN [st |-> "eof", v |-> WideZero, pos |-> pos]
        ELSE LoadLoopWide(file, r.pos, r.buf, WideZero, 1)

\* 2^k and 2^k - 1 as groups, 0 <= k < 64.
WidePow2(k) ==
    [i \in 1..GroupCount |-> IF i = (k \div 7) + 1 THEN 2 ^ (k % 7) ELSE 0]

WideOnes(k) ==
    [i \in 1..GroupCount |->
        IF i <= k \div 7 THEN 127
        ELSE IF i = (k \div 7) + 1 THEN 2 ^ (k % 7) - 1 ELSE 0]

WideValues ==
    {WidePow2(k) : k \in 0..(U64Bits - 1)} \cup {WideOnes(k) : k \in 0..U64Bits}

(***************************************************************************)
(* SpecWide: one u64 is written with variable_save_u64 and read back.      *)
(***************************************************************************)
WideInit ==
    /\ \E v \in WideValues :
          vr = [pc |-> "save", input |-> v, file |-> <<>>, out |-> <<>>]
    /\ lm = IdleLm /\ rn = IdleRn /\ mg = IdleMg
    /\ tk = IdleTk /\ ct = IdleCt
    /\ rc = IdleRc /\ ps = IdlePs /\ ip = IdleIp

WideSave ==
    /\ vr.pc = "save"
    /\ vr' = [vr EXCEPT !.file = variable_save_u64_wide(vr.input), !.pc = "saved"]
    /\ UNCHANGED <<lm, rn, mg, tk, ct, rc, ps, ip>>

WideLoad ==
    /\ vr.pc = "saved"
    /\ vr' = [vr EXCEPT !.out = <<variable_load_wide(vr.file, 1)>>, !.pc = "loaded"]
    /\ UNCHANGED <<lm, rn, mg, tk, ct, rc, ps, ip>>

WideNext == WideSave \/ WideLoad

SpecWide == WideInit /\ [][WideNext]_vars

\* The number of significant bits of v.
WideBitLen(v) ==
    LET top == {i \in 1..GroupCount : v[i] # 0}
    IN  IF top = {} THEN 0
        ELSE LET g == CHOOSE i \in top : \A j \in top : j <= i
                 b == CHOOSE n \in 1..7 : 2 ^ (n - 1) <= v[g] /\ v[g] < 2 ^ n
             IN  7 * (g - 1) + b

\* One byte below 2^7, one more byte for every further 7 bits.
WideExpectedLen(v) ==
    IF WideBitLen(v) <= 7 THEN 1 ELSE (WideBitLen(v) + 6) \div 7

C11_SmallLengths ==
    /\ vr.input = WideOnes(0) => Len(vr.file) = 1
    /\ vr.input = WidePow2(0) => Len(vr.file) = 1
    /\ vr.input = WideOnes(7) => Len(vr.file) = 1
    /\ vr.input = WidePow2(7) => Len(vr.file) = 2
    /\ vr.input = WideOnes(14) => Len(vr.file) = 2
    /\ vr.input = WidePow2(14) => Len(vr.file) = 3

\* C11 (amended): the encoding of n is 1 byte for n < 128 and one byte more
\* per further 7 bits; 0, 1, 127, 128, 16383, 16384 and 2^63-1 take
\* 1, 1, 1, 2, 2, 3 and 9 bytes, and the encoding is read back as n.
C11_VarintLengths ==
    vr.pc \in {"saved", "loaded"} =>
        /\ Len(vr.file) = WideExpectedLen(vr.input)
        /\ C11_SmallLengths
        /\ vr.input = WideOnes(63) => Len(vr.file) = 9
        /\ vr.pc = "loaded" =>
              /\ vr.out[1].st = "ok" /\ vr.out[1].v = vr.input
              /\ vr.out[1].pos = Len(vr.file) + 1

\* 2^63-1 was written and read back.
C11_Witness ==
    /\ vr.pc = "loaded" /\ vr.input = WideOnes(63)
    /\ Len(vr.file) = 9 /\ vr.out[1].v = vr.input

\* C11 as stated: 2^63-1 takes 10 bytes.
C11_Original ==
    vr.pc \in {"saved", "loaded"} =>
        /\ Len(vr.file) = WideExpectedLen(vr.input)
        /\ C11_SmallLengths
        /\ vr.input = WideOnes(63) => Len(vr.file) = 10


(***************************************************************************)
(* SpecMap: two posting maps built by push, merged by or (as               *)
(* IndexedTerm::combine calls it), written one after the other to an index *)
(* file by variable_save and read back by variable_load.                   *)
(***************************************************************************)
\* Postings pushed in the exercise: one occurrence in title, two in text.
PostingSet == {UsageData(1, 1), UsageData(2, 2)}

NoOr == [done |-> FALSE]

MapInit ==
    /\ lm = [pc |-> "run", a |-> SortedLinkedMap_new, b |-> SortedLinkedMap_new,
             disk |-> <<>>, fromDisk |-> FALSE, last |-> NoOr]
    /\ vr = IdleVr /\ rn = IdleRn /\ mg = IdleMg
    /\ tk = IdleTk /\ ct = IdleCt
    /\ rc = IdleRc /\ ps = IdlePs /\ ip = IdleIp

MapPushA ==
    /\ lm.pc = "run" /\ lm.disk = <<>> /\ ~lm.fromDisk
    /\ len(lm.a) < MaxMapSize
    /\ \E k \in 0..MaxKey : \E v \in PostingSet :
          lm' = [lm EXCEPT !.a = push(lm.a, k, v), !.last = NoOr]
    /\ UNCHANGED <<vr, rn, mg, tk, ct, rc, ps, ip>>

MapPushB ==
    /\ lm.pc = "run" /\ lm.disk = <<>> /\ ~lm.fromDisk
    /\ len(lm.b) < MaxMapSize
    /\ \E k \in 0..MaxKey : \E v \in PostingSet :
          lm' = [lm EXCEPT !.b = push(lm.b, k, v), !.last = NoOr]
    /\ UNCHANGED <<vr, rn, mg, tk, ct, rc, ps, ip>>

\* a.or(b, |_, _| {}): b is moved into the call.
MapOr ==
    /\ lm.pc = "run" /\ lm.disk = <<>>
    /\ len(lm.a) <= MaxMapSize
    /\ LET r == or(lm.a, lm.b, "combine")
       IN  IF r.st = "panic"
           THEN lm' = [lm EXCEPT !.pc = "panic"]
           ELSE lm' = [lm EXCEPT !.a = r.m, !.b = SortedLinkedMap_new,
                                 !.last = [done |-> TRUE, a |-> lm.a, b |-> lm.b,
                                           out |-> r.m]]
    /\ UNCHANGED <<vr, rn, mg, tk, ct, rc, ps, ip>>

\* Both maps are written to the index file, a then b (two terms of a block).
MapSave ==
    /\ lm.pc = "run" /\ lm.disk = <<>> /\ ~lm.fromDisk
    /\ LET sa == SortedLinkedMap_variable_save(lm.a)
           sb == SortedLinkedMap_variable_save(lm.b)
       IN  IF sa.st = "panic" \/ sb.st = "panic"
           THEN lm' = [lm EXCEPT !.pc = "panic"]
           ELSE lm' = [lm EXCEPT !.disk = sa.bytes \o sb.bytes,
                                 !.a = SortedLinkedMap_new, !.b = SortedLinkedMap_new,
                                 !.last = NoOr]
    /\ UNCHANGED <<vr, rn, mg, tk, ct, rc, ps, ip>>

\* Two posting lists are read from the start of the index file.
MapLoad ==
    /\ lm.pc = "run" /\ lm.disk # <<>>
    /\ LET ra == SortedLinkedMap_variable_load(lm.disk, 1)
           rb == SortedLinkedMap_variable_load(lm.disk, ra.pos)
       IN  IF ra.st # "ok"
           THEN lm' = [lm EXCEPT !.pc = "stuck", !.disk = <<>>]
           ELSE IF rb.st # "ok"
           THEN lm' = [lm EXCEPT !.pc = "stuck", !.a = ra.v, !.disk = <<>>,
                                 !.fromDisk = TRUE]
           ELSE lm' = [lm EXCEPT !.a = ra.v, !.b = rb.v, !.disk = <<>>,
                                 !.fromDisk = TRUE]
    /\ UNCHANGED <<vr, rn, mg, tk, ct, rc, ps, ip>>

MapNext == MapPushA \/ MapPushB \/ MapOr \/ MapSave \/ MapLoad

SpecMap == MapInit /\ [][MapNext]_vars

StrictlyAscending(s) == \A i \in 1..(Len(s) - 1) : s[i] < s[i + 1]

KeySet(m) == {m.start[i].k : i \in 1..Len(m.start)}

\* C4: after A.or(B) with A non-empty, the keys of A are exactly
\* keys(A) \cup keys(B), each once.
C4_OrIsUnion ==
    lm.last.done =>
        /\ KeySet(lm.last.out) = KeySet(lm.last.a) \cup KeySet(lm.last.b)
        /\ Cardinality(KeySet(lm.last.out)) = Len(lm.last.out.start)

RECURSIVE BitOr(_, _)
\* Bitwise OR of two naturals.
BitOr(x, y) ==
    IF x = 0 THEN y
    ELSE IF y = 0 THEN x
    ELSE (IF x % 2 = 1 \/ y % 2 = 1 THEN 1 ELSE 0) + 2 * BitOr(x \div 2, y \div 2)

\* C5: after combine's a.or(b), a docId held by both operands carries the sum
\* of the two occurrence counts and the bitwise OR of the two zone masks.
C5_CollidingPostingsCombine ==
    lm.last.done =>
        \A i \in 1..Len(lm.last.out.start) :
        \A ia \in 1..Len(lm.last.a.start) :
        \A ib \in 1..Len(lm.last.b.start) :
            (/\ lm.last.a.start[ia].k = lm.last.out.start[i].k
             /\ lm.last.b.start[ib].k = lm.last.out.start[i].k)
            => lm.last.out.start[i].v =
                   UsageData(lm.last.a.start[ia].v.use_count
                               + lm.last.b.start[ib].v.use_count,
                             BitOr(lm.last.a.start[ia].v.segments,
                                   lm.last.b.start[ib].v.segments))

\* C8: every posting map reached through push, or and variable_load lists
\* its docIds in strictly ascending order, without duplicates.
C8_DocsAscending ==
    lm.pc # "idle" =>
        /\ StrictlyAscending(Keys(lm.a))
        /\ StrictlyAscending(Keys(lm.b))

\* Two maps built by push were saved, read back by variable_load and merged
\* by or(), and the merged map iterates two docIds.
C8_Witness ==
    /\ lm.pc = "run" /\ lm.fromDisk /\ lm.last.done
    /\ Len(lm.last.a.start) >= 1 /\ Len(lm.last.b.start) >= 1
    /\ Len(lm.a.start) >= 2


(***************************************************************************)
(* SpecTok: a document of zone elements, in the order of the zone list,    *)
(* is read with next_word; every AttributeEnd is answered with             *)
(* transform_zone, as the callers of the reader do.                        *)
(***************************************************************************)
\* A char or an entity of a zone body.
Pieces ==
    {<<"a">>, <<"B">>, <<" ">>, <<"1">>, Append(AMP, ";"), Append(APOS, ";")}

Bodies(n) == UNION {[1..m -> Pieces] : m \in 0..n}

RECURSIVE Flatten(_)
Flatten(ss) == IF ss = <<>> THEN <<>> ELSE Head(ss) \o Flatten(Tail(ss))

\* "title", "text", then "xxx", "xxxx", ...
ZoneName(i) ==
    IF i = 1 THEN <<"t", "i", "t", "l", "e">>
    ELSE IF i = 2 THEN <<"t", "e", "x", "t">>
    ELSE [j \in 1..i |-> "x"]

ZoneList(k) == [i \in 1..k |-> ZoneName(i)]

\* <name>body</name> for every body, the names in the order of the list.
Document(bodies, order) ==
    Flatten([i \in 1..Len(bodies) |->
        LET name == order[((i - 1) % Len(order)) + 1]
        IN  <<"<">> \o name \o <<">">> \o Flatten(bodies[i])
            \o <<"<", "/">> \o name \o <<">">>])

TokInit ==
    /\ \E k \in 1..MaxZones : \E n \in 1..MaxSegments :
       \E first \in Bodies(MaxBodyPieces) : \E rest \in [2..n -> Bodies(1)] :
          LET bodies == [i \in 1..n |-> IF i = 1 THEN first ELSE rest[i]]
          IN  tk = [pc |-> "read", bodies |-> bodies,
                    r |-> RepeatedXmlReader_new(Document(bodies, ZoneList(k)),
                                                ZoneList(k)),
                    out |-> <<>>, zone_ends |-> 0]
    /\ vr = IdleVr /\ lm = IdleLm /\ rn = IdleRn /\ mg = IdleMg /\ ct = IdleCt
    /\ rc = IdleRc /\ ps = IdlePs /\ ip = IdleIp

\* One call of next_word.
TokNextWord ==
    /\ tk.pc = "read"
    /\ LET x == RepeatedXmlReader_next_word(tk.r, zone(tk.r))
       IN  tk' = [tk EXCEPT !.r = x.r,
                            !.out = IF x.res.kind = "None" THEN tk.out
                                    ELSE Append(tk.out, x.res),
                            !.pc = CASE x.res.kind = "None" -> "done"
                                     [] x.res.kind = "AttributeEnd" -> "zone_end"
                                     [] OTHER -> "read"]
    /\ UNCHANGED <<vr, lm, rn, mg, ct, rc, ps, ip>>

\* ReaderResult::AttributeEnd => reader.transform_zone()
TokTransformZone ==
    /\ tk.pc = "zone_end"
    /\ tk' = [tk EXCEPT !.r = transform_zone(tk.r),
                        !.zone_ends = tk.zone_ends + 1, !.pc = "read"]
    /\ UNCHANGED <<vr, lm, rn, mg, ct, rc, ps, ip>>

TokNext == TokNextWord \/ TokTransformZone

SpecTok == TokInit /\ [][TokNext]_vars

\* What a piece contributes to a token: its lowercased char, "'" for
\* &apos;, nothing for a delimiter char or one of the other entities.
PieceIsSeparator(p) ==
    \/ p \in {Append(AMP, ";"), Append(LT, ";"), Append(GT, ";"), Append(QUOT, ";")}
    \/ (Len(p) = 1 /\ interpret_character(p[1]).type = "Delimiter")

PieceChars(p) ==
    IF p = Append(APOS, ";") THEN <<"'">> ELSE interpret_character(p[1]).chars

WordOf(run) == IF passable(run) THEN <<[kind |-> "Word", w |-> run]>> ELSE <<>>

RECURSIVE BodyWords(_, _, _)
\* The maximal separator-free runs of body[i..] that hold a Letter.
BodyWords(body, i, run) ==
    IF i > Len(body) THEN WordOf(run)
    ELSE IF PieceIsSeparator(body[i])
    THEN WordOf(run) \o BodyWords(body, i + 1, <<>>)
    ELSE BodyWords(body, i + 1, run \o PieceChars(body[i]))

ExpectedTokens(bodies) ==
    Flatten([i \in 1..Len(bodies) |->
        BodyWords(bodies[i], 1, <<>>) \o <<[kind |-> "AttributeEnd"]>>])

HasEntity(body) == \E i \in 1..Len(body) : Len(body[i]) > 1

\* C13: for a document without entities, the tokens returned are, zone by
\* zone and in order, the maximal delimiter-free runs holding a Letter
\* (lowercased), each zone closed by one AttributeEnd.
C13_WordsAreMaximalRuns ==
    (tk.pc = "done" /\ \A i \in 1..Len(tk.bodies) : ~HasEntity(tk.bodies[i]))
        => tk.out = ExpectedTokens(tk.bodies)

\* C14: when every zone body ends in a delimiter char, the tokens returned
\* are the runs between delimiters and &amp; &lt; &gt; &quot;, with &apos;
\* read as ' inside its run.
C14_EntitiesInTokens ==
    (/\ tk.pc = "done"
     /\ \A i \in 1..Len(tk.bodies) :
           /\ tk.bodies[i] # <<>>
           /\ tk.bodies[i][Len(tk.bodies[i])] \in {<<" ">>, <<"1">>})
        => tk.out = ExpectedTokens(tk.bodies)

\* C15: the zone index stays in [0, k) and is the number of handled
\* AttributeEnd events modulo k, so after k of them the expected tag is the
\* first of the list again.
C15_ZoneRotation ==
    tk.pc # "idle" =>
        /\ tk.r.attribute_index \in 0..(zones_len(tk.r) - 1)
        /\ tk.r.attribute_index = tk.zone_ends % zones_len(tk.r)
        /\ tk.zone_ends = zones_len(tk.r) => zone(tk.r) = tk.r.attribute_order[1]

\* A list of two zones, both zone ends handled: the index is back at 0.
C15_Witness ==
    /\ tk.pc = "read" /\ zones_len(tk.r) = 2
    /\ tk.zone_ends = 2 /\ tk.r.attribute_index = 0

(***************************************************************************)
(* Accumulator contents.  A term's postings are one posting per docId of   *)
(* an interval of docIds, pushed in order; its use_count is their sum.     *)
(***************************************************************************)
\* "a", "ab", "abc", "b" and the two-byte chars U+044F, U+0450.
TermSet == {<<97>>, <<97, 98>>, <<97, 98, 99>>, <<98>>, <<209, 143>>, <<209, 144>>}

DocSets == {lo..hi : lo \in 0..MaxDoc, hi \in 0..MaxDoc} \ {{}}

\* The posting parse leaves for docId d when worker w met the term.
PostingOf(w, d) == UsageData(1 + ((w + d) % 2), 1 + (w % 2))

RECURSIVE PushDocs(_, _, _, _)
PushDocs(m, w, d, docs) ==
    IF d > MaxDoc THEN m
    ELSE PushDocs(IF d \in docs THEN push(m, d, PostingOf(w, d)) ELSE m, w, d + 1, docs)

RECURSIVE SumCounts(_, _)
SumCounts(s, i) == IF i > Len(s) THEN 0 ELSE s[i].v.use_count + SumCounts(s, i + 1)

AccTerm(term, w, docs) ==
    LET m == PushDocs(SortedLinkedMap_new, w, 0, docs)
    IN  IndexedTerm(term, SumCounts(m.start, 1), m)

RECURSIVE BTreeIter(_)
\* BTreeMap::into_iter: the keys in ascending order.
BTreeIter(keys) ==
    IF keys = {} THEN <<>>
    ELSE LET k == CHOOSE x \in keys : \A y \in keys \ {x} : StrLess(x, y)
         IN  <<k>> \o BTreeIter(keys \ {k})

\* The accumulators of worker w: which terms, and the docIds of each.
Trees(w) ==
    UNION { { LET order == BTreeIter(ks)
              IN  [i \in 1..Len(order) |-> AccTerm(order[i], w, f[order[i]])]
              : f \in [ks -> DocSets] }
            : ks \in {x \in SUBSET TermSet : Cardinality(x) <= MaxTreeTerms} }

(***************************************************************************)
(* SpecRun: one accumulator is written by flush_to (push of every term,    *)
(* then finish) and the run is read back by IndexTermProvider.             *)
(***************************************************************************)
RunInit ==
    /\ \E tree \in Trees(0) : \E b \in 1..MaxBlock :
          rn = [pc |-> "write", tree |-> tree, next |-> 1,
                sv |-> IndexMergeSaver_new(b), pv |-> <<>>, got |-> <<>>]
    /\ vr = IdleVr /\ lm = IdleLm /\ mg = IdleMg
    /\ tk = IdleTk /\ ct = IdleCt
    /\ rc = IdleRc /\ ps = IdlePs /\ ip = IdleIp

\* merger.push(v.1) for the next entry of the tree.
RunPush ==
    /\ rn.pc = "write" /\ rn.next <= Len(rn.tree)
    /\ LET sv == IndexMergeSaver_push(rn.sv, rn.tree[rn.next])
       IN  rn' = [rn EXCEPT !.sv = sv, !.next = rn.next + 1,
                            !.pc = IF sv.st = "ok" THEN "write" ELSE "panic"]
    /\ UNCHANGED <<vr, lm, mg, tk, ct, rc, ps, ip>>

\* merger.finish()
RunFinish ==
    /\ rn.pc = "write" /\ rn.next > Len(rn.tree)
    /\ LET sv == finish(rn.sv)
       IN  rn' = [rn EXCEPT !.sv = sv,
                            !.pc = IF sv.st = "ok" THEN "written" ELSE "panic"]
    /\ UNCHANGED <<vr, lm, mg, tk, ct, rc, ps, ip>>

\* IndexTermProvider::new on the directory just written.
RunOpen ==
    /\ rn.pc = "written"
    /\ rn' = [rn EXCEPT !.pv = IndexTermProvider_new(Files(rn.sv)), !.pc = "read"]
    /\ UNCHANGED <<vr, lm, mg, tk, ct, rc, ps, ip>>

\* One next_term call; "stuck" when the call does not return.
RunNextTerm ==
    /\ rn.pc = "read"
    /\ LET r == next_term(rn.pv)
       IN  rn' = [rn EXCEPT !.pv = r.pv,
                            !.got = IF r.st = "some" THEN Append(rn.got, r.term) ELSE rn.got,
                            !.pc = IF r.st = "some" THEN "read"
                                   ELSE IF r.st = "none" THEN "done" ELSE "stuck"]
    /\ UNCHANGED <<vr, lm, mg, tk, ct, rc, ps, ip>>

RunNext == RunPush \/ RunFinish \/ RunOpen \/ RunNextTerm

SpecRun == RunInit /\ [][RunNext]_vars

\* C6: when the reader has returned None, the terms it returned are the
\* terms pushed: same strings, same totalUseCount, same postings.
C6_FrontCodingRoundTrip ==
    rn.pc = "done" => rn.got = rn.tree

\* C7: the terms returned by successive next_term calls on a run written by
\* flush_to are in strictly ascending byte-wise order.
C7_RunTermsAscending ==
    rn.pc \in {"read", "done", "stuck"} =>
        \A i \in 1..(Len(rn.got) - 1) : StrLess(rn.got[i].term, rn.got[i + 1].term)

\* Three terms were read back from a run of two blocks.
C7_Witness ==
    /\ rn.pc = "done" /\ Len(rn.got) = 3
    /\ rn.sv.cursors[1].lexical_pointer # rn.sv.cursors[3].lexical_pointer

\* C9: after finish the header equals the number of terms pushed and the
\* number of cursor records; the reader returns that many terms, then None.
C9_HeaderAndReader ==
    /\ rn.pc \in {"written", "read", "done", "stuck"} =>
          /\ rn.sv.header = Len(rn.tree)
          /\ rn.sv.header = Len(rn.sv.cursors)
    /\ rn.pc \in {"done", "stuck"} => Len(rn.got) = rn.sv.header

(***************************************************************************)
(* SpecMerge: IndexMerger::merge over the runs two workers flushed.  The   *)
(* build either checks integer overflow (a varint read at end of file      *)
(* panics) or does not (the read loops forever).                           *)
(***************************************************************************)
\* Indexes of the providers vector.
Workers == {0, 1}

\* "a", "ab", "b".
MergeTermSet == {<<97>>, <<97, 98>>, <<98>>}

\* One docId, or every docId.
MergeDocSets == {d \in DocSets : Cardinality(d) \in {1, MaxDoc + 1}}

MergeTrees(w) ==
    UNION { { LET order == BTreeIter(ks)
              IN  [i \in 1..Len(order) |-> AccTerm(order[i], w, f[order[i]])]
              : f \in [ks -> MergeDocSets] }
            : ks \in {x \in SUBSET MergeTermSet : Cardinality(x) <= MaxRunTerms} }

\* IndexedTerm::combine
combine(self, other) ==
    LET o == or(self.indexes, other.indexes, "combine")
    IN  [st |-> o.st,
         t |-> IndexedTerm(self.term, self.use_count + other.use_count, o.m)]

\* The greatest (Reverse(term), index) of the heap: the smallest term, and of
\* equal terms the one of the larger provider index.
HeapTop(h) ==
    CHOOSE e \in h : \A o \in h \ {e} :
        \/ StrLess(e.t.term, o.t.term)
        \/ (e.t.term = o.t.term /\ e.v > o.v)

RECURSIVE PopEqual(_, _, _)
\* while let Some(v) = q.peek() { if v.0 == next.0 { pop; combine } else break }
PopEqual(next, q, values) ==
    IF q = {} THEN [st |-> "ok", next |-> next, q |-> q, values |-> values]
    ELSE LET v == HeapTop(q)
         IN  IF v.t.term # next.term
             THEN [st |-> "ok", next |-> next, q |-> q, values |-> values]
             ELSE LET c == combine(next, v.t)
                  IN  IF c.st # "ok"
                      THEN [st |-> "panic", next |-> next, q |-> q \ {v},
                            values |-> values \cup {v.v}]
                      ELSE PopEqual(c.t, q \ {v}, values \cup {v.v})

\* IndexedTerm::get_use_count, counting every term once.
get_use_countOne(t) == 1

\* IndexedTerm::get_use_count
get_use_count(t) == t.use_count

RECURSIVE to_string(_)
\* u64::to_string: the decimal digits, most significant first.
to_string(n) ==
    LET d == <<"0", "1", "2", "3", "4", "5", "6", "7", "8", "9">>[(n % 10) + 1]
    IN  IF n < 10 THEN <<d>> ELSE Append(to_string(n \div 10), d)

\* The bytes of info.txt: each count in decimal, each followed by line().
InfoFile(lexeme_count, term_count) ==
    to_string(lexeme_count) \o <<"\n">> \o to_string(term_count) \o <<"\n">>

\* A run whose dictionary.txt lost its last `cut` cursor records: the header
\* still announces them, and IndexedCursor::load fails when it gets there.
Truncated(files, cut) ==
    [files EXCEPT !.cursors = SubSeq(@, 1, Len(@) - Min(cut, Len(@)))]

\* next_term returned None although the provider still owed terms: a read
\* failed and `.ok()?` turned the error into None.
ReadFailedAsNone(pv, r) == r.st = "none" /\ pv.remaining_size > 0

MergeInit ==
    /\ \E oc \in BOOLEAN : \E b \in 1..MaxBlock : \E cut \in 0..MaxCut :
       \E t0 \in MergeTrees(0) : \E t1 \in MergeTrees(1) :
          LET trees == [w \in Workers |-> IF w = 0 THEN t0 ELSE t1]
          IN  mg = [pc |-> "prime", overflow_checks |-> oc, trees |-> trees,
                    providers |-> [w \in Workers |->
                        IndexTermProvider_new(
                            Truncated(Files(flush_to(trees[w], b)),
                                      IF w = 1 THEN cut ELSE 0))],
                    i |-> 0, p_q |-> {}, next |-> <<>>, tasks |-> {}, hung |-> {},
                    failed |-> {}, read_failed |-> {},
                    saver |-> IndexMergeSaver_new(b), final |-> <<>>,
                    lexeme_count |-> 0, term_count |-> 0,
                    finish_ok |-> FALSE, buffers |-> Workers, info |-> <<>>]
    /\ vr = IdleVr /\ lm = IdleLm /\ rn = IdleRn
    /\ tk = IdleTk /\ ct = IdleCt
    /\ rc = IdleRc /\ ps = IdlePs /\ ip = IdleIp

\* The priming loop starts at the second provider.
MergePrimeSkipFirst ==
    /\ mg.pc = "prime"
    /\ LET r == IF mg.i = 0 THEN [st |-> "none", pv |-> mg.providers[mg.i]]
                ELSE next_term(mg.providers[mg.i])
           last == \A w \in Workers : w <= mg.i
       IN  IF r.st \in {"some", "none"}
           THEN mg' = [mg EXCEPT !.providers[mg.i] = r.pv,
                                 !.p_q = IF r.st = "some"
                                         THEN mg.p_q \cup {[t |-> r.term, v |-> mg.i]}
                                         ELSE mg.p_q,
                                 !.i = mg.i + 1,
                                 !.pc = IF last THEN "loop" ELSE "prime"]
           ELSE mg' = [mg EXCEPT !.providers[mg.i] = r.pv,
                                 !.pc = IF mg.overflow_checks THEN "panic" ELSE "hang"]
    /\ UNCHANGED <<vr, lm, rn, tk, ct, rc, ps, ip>>

\* One round of the priming loop: next_term of provider i, in the merge task.
MergePrime ==
    /\ mg.pc = "prime"
    /\ LET r == next_term(mg.providers[mg.i])
           last == \A w \in Workers : w <= mg.i
       IN  IF r.st \in {"some", "none"}
           THEN mg' = [mg EXCEPT !.providers[mg.i] = r.pv,
                                 !.p_q = IF r.st = "some"
                                         THEN mg.p_q \cup {[t |-> r.term, v |-> mg.i]}
                                         ELSE mg.p_q,
                                 !.read_failed =
                                     IF ReadFailedAsNone(mg.providers[mg.i], r)
                                     THEN mg.read_failed \cup {mg.i}
                                     ELSE mg.read_failed,
                                 !.i = mg.i + 1,
                                 !.pc = IF last THEN "loop" ELSE "prime"]
           ELSE mg' = [mg EXCEPT !.providers[mg.i] = r.pv,
                                 !.pc = IF mg.overflow_checks THEN "panic" ELSE "hang"]
    /\ UNCHANGED <<vr, lm, rn, tk, ct, rc, ps, ip>>

\* q.pop(), the equal terms combined into it, and the advance tasks spawned.
MergePop ==
    /\ mg.pc = "loop" /\ mg.p_q # {}
    /\ LET top == HeapTop(mg.p_q)
           r == PopEqual(top.t, mg.p_q \ {top}, {top.v})
       IN  mg' = [mg EXCEPT !.p_q = r.q, !.next = r.next,
                            !.tasks = IF r.st = "ok" THEN r.values ELSE {},
                            !.pc = IF r.st = "ok" THEN "advance" ELSE "panic"]
    /\ UNCHANGED <<vr, lm, rn, tk, ct, rc, ps, ip>>

\* A spawned task: next_term of provider v, pushed to the heap if Some.  A
\* task that panics ends; one that loops forever never does.
MergeAdvance ==
    /\ mg.pc = "advance"
    /\ \E v \in mg.tasks :
         LET r == next_term(mg.providers[v])
         IN  mg' = [mg EXCEPT
                      !.providers[v] = r.pv,
                      !.tasks = mg.tasks \ {v},
                      !.p_q = IF r.st = "some"
                              THEN mg.p_q \cup {[t |-> r.term, v |-> v]}
                              ELSE mg.p_q,
                      !.read_failed = IF ReadFailedAsNone(mg.providers[v], r)
                                      THEN mg.read_failed \cup {v}
                                      ELSE mg.read_failed,
                      !.failed = IF r.st \notin {"some", "none"} /\ mg.overflow_checks
                                 THEN mg.failed \cup {v} ELSE mg.failed,
                      !.hung = IF r.st \notin {"some", "none"} /\ ~mg.overflow_checks
                               THEN mg.hung \cup {v} ELSE mg.hung]
    /\ UNCHANGED <<vr, lm, rn, tk, ct, rc, ps, ip>>

\* join_all(tasks).await with its results dropped, the counts, then
\* saver.push(next).await?: a write that fails makes merge return the error.
MergeJoin ==
    /\ mg.pc = "advance" /\ mg.tasks = {} /\ mg.hung = {}
    /\ \E io_ok \in BOOLEAN :
         LET sv == IndexMergeSaver_push(mg.saver, mg.next)
             counted == [mg EXCEPT
                           !.lexeme_count = mg.lexeme_count + get_use_count(mg.next),
                           !.term_count = mg.term_count + 1,
                           !.next = <<>>]
         IN  IF io_ok
             THEN mg' = [counted EXCEPT
                           !.saver = sv,
                           !.final = Append(mg.final, mg.next),
                           !.pc = IF sv.st = "ok" THEN "loop" ELSE "panic"]
             ELSE mg' = [counted EXCEPT !.pc = "error"]
    /\ UNCHANGED <<vr, lm, rn, tk, ct, rc, ps, ip>>

\* The heap is empty: saver.finish().await?
MergeFinish ==
    /\ mg.pc = "loop" /\ mg.p_q = {}
    /\ \E io_ok \in BOOLEAN :
         LET sv == finish(mg.saver)
         IN  IF io_ok
             THEN mg' = [mg EXCEPT !.saver = sv,
                                   !.finish_ok = (sv.st = "ok"),
                                   !.pc = IF sv.st = "ok" THEN "finished"
                                          ELSE "panic"]
             ELSE mg' = [mg EXCEPT !.pc = "error"]
    /\ UNCHANGED <<vr, lm, rn, tk, ct, rc, ps, ip>>

\* remove_buffer(&buffer_files), called in the loop before finish.
MergeRemoveBufferEarly ==
    /\ mg.pc = "loop" /\ mg.buffers # {}
    /\ mg' = [mg EXCEPT !.buffers = {}]
    /\ UNCHANGED <<vr, lm, rn, tk, ct, rc, ps, ip>>

\* remove_buffer(&buffer_files): remove_dir_all of every run directory.
MergeRemoveBuffer ==
    /\ mg.pc = "finished"
    /\ mg' = [mg EXCEPT !.buffers = {}, !.pc = "removed"]
    /\ UNCHANGED <<vr, lm, rn, tk, ct, rc, ps, ip>>

\* info.txt: File::create(..).unwrap(), the two counts written and flushed,
\* every step unwrapped; then Ok(()).
MergeWriteInfo ==
    /\ mg.pc = "removed"
    /\ \E io_ok \in BOOLEAN :
         IF io_ok
         THEN mg' = [mg EXCEPT !.info = InfoFile(mg.lexeme_count, mg.term_count),
                               !.pc = "done"]
         ELSE mg' = [mg EXCEPT !.pc = "panic"]
    /\ UNCHANGED <<vr, lm, rn, tk, ct, rc, ps, ip>>

MergeNext ==
    \/ MergePrime \/ MergePop \/ MergeAdvance \/ MergeJoin
    \/ MergeFinish \/ MergeRemoveBuffer \/ MergeWriteInfo

SpecMerge == MergeInit /\ [][MergeNext]_vars

RunTerms(tree) == {tree[i].term : i \in 1..Len(tree)}

AllRunTerms == UNION {RunTerms(mg.trees[w]) : w \in Workers}

\* C1: when merge has returned, the terms of the FinalDictionary are the
\* terms of the runs, each exactly once, in strictly ascending order.
C1_MergeIsTermUnion ==
    mg.pc = "done" =>
        /\ {mg.final[i].term : i \in 1..Len(mg.final)} = AllRunTerms
        /\ \A i \in 1..(Len(mg.final) - 1) :
              StrLess(mg.final[i].term, mg.final[i + 1].term)
        /\ mg.saver.header = Cardinality(AllRunTerms)

\* The use_count of `term` in a run, 0 when the run does not hold it.
RunUseCount(tree, term) ==
    LET hit == {i \in 1..Len(tree) : tree[i].term = term}
    IN  IF hit = {} THEN 0 ELSE tree[CHOOSE i \in hit : TRUE].use_count

\* C3: when merge has returned, every term of the FinalDictionary carries
\* the sum of its totalUseCount over the runs holding it.
C3_UseCountIsSum ==
    mg.pc = "done" =>
        \A i \in 1..Len(mg.final) :
            mg.final[i].use_count =
                RunUseCount(mg.trees[0], mg.final[i].term)
                + RunUseCount(mg.trees[1], mg.final[i].term)

\* The postings of `term` in a run, <<>> when the run does not hold it.
RunEntries(tree, term) ==
    LET hit == {i \in 1..Len(tree) : tree[i].term = term}
    IN  IF hit = {} THEN <<>> ELSE tree[CHOOSE i \in hit : TRUE].indexes.start

EntryKeys(entries) == {entries[j].k : j \in 1..Len(entries)}

PostingAt(entries, d) ==
    IF d \in EntryKeys(entries)
    THEN entries[CHOOSE j \in 1..Len(entries) : entries[j].k = d].v
    ELSE UsageData(0, 0)

\* The posting single-run indexing gives (term, d): occurrences summed, zone
\* masks ORed over the runs.
SingleRunPosting(term, d) ==
    LET p0 == PostingAt(RunEntries(mg.trees[0], term), d)
        p1 == PostingAt(RunEntries(mg.trees[1], term), d)
    IN  UsageData(p0.use_count + p1.use_count, BitOr(p0.segments, p1.segments))

\* C2: when merge has returned, the FinalDictionary is the dictionary of the
\* whole corpus indexed as one run: the same terms, per term the same
\* totalUseCount and docId set, and per docId the same posting.
C2_MergeEqualsSingleRun ==
    mg.pc = "done" =>
        /\ {mg.final[i].term : i \in 1..Len(mg.final)} = AllRunTerms
        /\ Len(mg.final) = Cardinality(AllRunTerms)
        /\ \A i \in 1..Len(mg.final) :
             LET t == mg.final[i]
             IN  /\ t.use_count = RunUseCount(mg.trees[0], t.term)
                                  + RunUseCount(mg.trees[1], t.term)
                 /\ EntryKeys(t.indexes.start) =
                        EntryKeys(RunEntries(mg.trees[0], t.term))
                        \cup EntryKeys(RunEntries(mg.trees[1], t.term))
                 /\ \A j \in 1..Len(t.indexes.start) :
                        t.indexes.start[j].v =
                            SingleRunPosting(t.term, t.indexes.start[j].k)

DigitValue(c) ==
    CHOOSE d \in 0..9 :
        <<"0", "1", "2", "3", "4", "5", "6", "7", "8", "9">>[d + 1] = c

RECURSIVE ParseDecimal(_)
ParseDecimal(digits) ==
    IF digits = <<>> THEN 0
    ELSE 10 * ParseDecimal(SubSeq(digits, 1, Len(digits) - 1))
         + DigitValue(digits[Len(digits)])

RECURSIVE InfoLines(_, _)
\* The numbers of a file of newline-terminated decimal lines; `line` is the
\* line read so far.
InfoLines(bytes, line) ==
    IF bytes = <<>> THEN <<>>
    ELSE IF bytes[1] = "\n" THEN <<ParseDecimal(line)>> \o InfoLines(Tail(bytes), <<>>)
    ELSE InfoLines(Tail(bytes), Append(line, bytes[1]))

RECURSIVE SumUseCount(_)
\* The use_count fields of the cursor records of a dictionary.txt, summed.
SumUseCount(cursors) ==
    IF cursors = <<>> THEN 0
    ELSE cursors[1].use_count + SumUseCount(Tail(cursors))

\* C16: when merge has returned Ok, the first line of info.txt is the sum of
\* the totalUseCount of the terms written to the FinalDictionary and the
\* second line is the number of terms written, which is the header count.
C16_InfoCounts ==
    mg.pc = "done" =>
        /\ InfoLines(mg.info, <<>>)
              = <<SumUseCount(mg.saver.cursors), Len(mg.saver.cursors)>>
        /\ mg.saver.header = Len(mg.saver.cursors)

\* A merge that returned Ok after writing three terms with ten lexemes or
\* more between them.
C16_Witness ==
    /\ mg.pc = "done"
    /\ Len(mg.saver.cursors) = 3
    /\ SumUseCount(mg.saver.cursors) >= 10

\* C17: a run directory is deleted and info.txt is written only after the
\* final writer's finish has succeeded; when merge has returned an error, no
\* run directory has been deleted and info.txt has not been written.
C17_CleanupAfterFinish ==
    /\ (mg.buffers # Workers \/ mg.info # <<>>) => mg.finish_ok
    /\ mg.pc = "error" => (mg.buffers = Workers /\ mg.info = <<>>)

\* finish has succeeded on a dictionary of at least one term and the run
\* directories have just been removed; info.txt is still to be written.
C17_Witness ==
    /\ mg.pc = "removed"
    /\ mg.finish_ok
    /\ mg.buffers = {}
    /\ Len(mg.saver.cursors) >= 1

\* C18: when a read of a sorted run has failed during the merge (a read
\* error or a truncated dictionary, lexical or index file), merge does not
\* return Ok: the failure is not taken for the end of the run.
C18_ReadFailureIsError ==
    (mg.read_failed # {} \/ mg.failed # {}) => mg.pc # "done"

(***************************************************************************)
(* SpecCtl: ParseController::create_dictionary.  The configuration is the  *)
(* number of input files and which of them cannot be opened, tasks_count,  *)
(* whether the zone list is empty, and whether the buffer and destination  *)
(* directories can be written.  A run is named by its flush_index.         *)
(***************************************************************************)
\* AtomicUsize::fetch_add(1) as a load followed by a store of the same value.
fetch_addStale(counter) == counter

\* AtomicUsize::fetch_add(1, SeqCst): the value the counter holds afterwards
\* (the call returns the value before).
fetch_add(counter) == counter + 1

\* The worker's flush: fetch_add on output_index, the path pushed to
\* output_files, then parser.flush_to(&path).await.unwrap().  `then` is the
\* worker's position when flush_to returned Ok.
WorkerFlush(c, w, then) ==
    LET flush_index == c.output_index
        c1 == [c EXCEPT !.output_index = fetch_add(c.output_index),
                        !.output_files = Append(c.output_files, flush_index)]
    IN  IF c.buffer_ok
        THEN [c1 EXCEPT !.written = c.written \cup {flush_index},
                        !.nonempty = IF c.tasks[w].b_tree
                                     THEN c.nonempty \cup {flush_index}
                                     ELSE c.nonempty,
                        !.tasks[w].b_tree = FALSE,
                        !.tasks[w].pc = then]
        ELSE [c1 EXCEPT !.tasks[w].pc = "panicked"]

\* ParseController::new
CtlInit ==
    /\ \E n \in 0..MaxFiles : \E missing \in SUBSET (0..(n - 1)) :
       \E tc \in 0..MaxTasks : \E ae \in BOOLEAN :
       \E bo \in BOOLEAN : \E de \in BOOLEAN :
          ct = [pc |-> "new", files |-> n, missing |-> missing,
                tasks_count |-> tc, attributes_empty |-> ae,
                buffer_ok |-> bo, destination_ok |-> de,
                file_index |-> 0, output_index |-> 0, output_files |-> <<>>,
                written |-> {}, nonempty |-> {}, tasks |-> <<>>,
                parsed |-> {}, claimed |-> {}, full_runs |-> 0,
                dictionary |-> "none"]
    /\ vr = IdleVr /\ lm = IdleLm /\ rn = IdleRn /\ mg = IdleMg /\ tk = IdleTk
    /\ rc = IdleRc /\ ps = IdlePs /\ ip = IdleIp

\* invert up to join_all: create_dir's error is logged, tasks_count tasks
\* are spawned, each with a parser from builder.build().
CtlSpawn ==
    /\ ct.pc = "new"
    /\ ct' = [ct EXCEPT !.pc = "parsing",
                        !.tasks = [w \in 1..ct.tasks_count |->
                                     [pc |-> "loop", next_index |-> 0,
                                      b_tree |-> FALSE]]]
    /\ UNCHANGED <<vr, lm, rn, mg, tk, rc, ps, ip>>

\* The head of a worker's loop: the next file index; past the last file a
\* run is flushed and the loop left, else the file is opened (unwrap) and
\* reader_from_file builds the reader (RepeatedXmlReader::new panics on an
\* empty zone list).
WorkerLoop(w) ==
    /\ ct.pc = "parsing" /\ w \in DOMAIN ct.tasks /\ ct.tasks[w].pc = "loop"
    /\ LET next_index == ct.file_index
           c0 == [ct EXCEPT !.file_index = fetch_add(ct.file_index)]
       IN  IF next_index >= ct.files
           THEN ct' = WorkerFlush(c0, w, "tail")
           ELSE IF next_index \in ct.missing \/ ct.attributes_empty
           THEN ct' = [c0 EXCEPT !.tasks[w].pc = "panicked"]
           ELSE ct' = [c0 EXCEPT !.tasks[w].pc = "parse",
                                 !.tasks[w].next_index = next_index,
                                 !.claimed = ct.claimed \cup {<<w, next_index>>}]
    /\ UNCHANGED <<vr, lm, rn, mg, tk, rc, ps, ip>>

\* while let Full = parser.parse(&mut reader, next_index): Full spills a
\* run, anything else goes back to the head of the loop.  IndexParser::parse
\* of indexed.rs reads words and ends in todo!(), a panic; a parse that
\* returns does so with Full or FileEnd.
WorkerParse(w) ==
    /\ ct.pc = "parsing" /\ w \in DOMAIN ct.tasks /\ ct.tasks[w].pc = "parse"
    /\ \E r \in {"Full", "FileEnd", "panic"} : \E grew \in BOOLEAN :
         LET c0 == [ct EXCEPT !.parsed = ct.parsed \cup {ct.tasks[w].next_index}]
         IN  CASE r = "Full" ->
                    /\ ct.full_runs < MaxFullRuns
                    /\ ct' = WorkerFlush([c0 EXCEPT !.full_runs = ct.full_runs + 1,
                                                    !.tasks[w].b_tree = TRUE],
                                         w, "parse")
               [] r = "FileEnd" ->
                    ct' = [c0 EXCEPT !.tasks[w].b_tree = ct.tasks[w].b_tree \/ grew,
                                     !.tasks[w].pc = "loop"]
               [] r = "panic" ->
                    ct' = [c0 EXCEPT !.tasks[w].pc = "panicked"]
    /\ UNCHANGED <<vr, lm, rn, mg, tk, rc, ps, ip>>

\* The flush after the loop.
WorkerTail(w) ==
    /\ ct.pc = "parsing" /\ w \in DOMAIN ct.tasks /\ ct.tasks[w].pc = "tail"
    /\ ct' = WorkerFlush(ct, w, "done")
    /\ UNCHANGED <<vr, lm, rn, mg, tk, rc, ps, ip>>

\* join_all(tasks).await; -- every task has ended, by returning or by
\* panicking; the JoinHandle results are dropped.
CtlJoin ==
    /\ ct.pc = "parsing"
    /\ \A w \in DOMAIN ct.tasks : ct.tasks[w].pc \in {"done", "panicked"}
    /\ ct' = [ct EXCEPT !.pc = "merge"]
    /\ UNCHANGED <<vr, lm, rn, mg, tk, rc, ps, ip>>

\* self.merger.merge(files, output_files, destination).await?; Ok(())
\* merge: create_dir's error is logged; write_input_files unwraps
\* File::create; provider_from_file(..)? fails on a run that was not
\* written; else the runs are merged, removed, and Ok returned.
CtlMerge ==
    /\ ct.pc = "merge"
    /\ LET runs == {ct.output_files[i] : i \in 1..Len(ct.output_files)}
       IN  IF ~ct.destination_ok
           THEN ct' = [ct EXCEPT !.pc = "panic"]
           ELSE IF ~(runs \subseteq ct.written)
           THEN ct' = [ct EXCEPT !.pc = "err"]
           ELSE ct' = [ct EXCEPT !.pc = "ok", !.written = {},
                                 !.dictionary = IF runs \cap ct.nonempty # {}
                                                THEN "terms" ELSE "empty"]
    /\ UNCHANGED <<vr, lm, rn, mg, tk, rc, ps, ip>>

CtlNext ==
    \/ CtlSpawn
    \/ \E w \in 1..MaxTasks : WorkerLoop(w)
    \/ \E w \in 1..MaxTasks : WorkerParse(w)
    \/ \E w \in 1..MaxTasks : WorkerTail(w)
    \/ CtlJoin
    \/ CtlMerge

SpecCtl == CtlInit /\ [][CtlNext]_vars

\* C19: merge is entered only when every worker task has completed
\* successfully: when a worker has failed, the merger is not run.
C19_MergeOnlyAfterWorkersSucceed ==
    ct.pc \in {"merge", "ok", "err", "panic"} =>
        \A w \in DOMAIN ct.tasks : ct.tasks[w].pc = "done"

InvalidConfiguration ==
    \/ ct.attributes_empty
    \/ ct.tasks_count = 0
    \/ ~ct.buffer_ok
    \/ ~ct.destination_ok

\* C20: with an empty zone list, zero workers or a directory that cannot
\* be written, create_dictionary never returns Ok and no input file is
\* ever parsed.
C20_InvalidConfigurationFailsAtStart ==
    (ct.pc # "idle" /\ InvalidConfiguration) =>
        (ct.pc # "ok" /\ ct.parsed = {})

(***************************************************************************)
(* SpecUtf: read_char over a file of bytes, called until it returns None.  *)
(* read_char returns Option<char>: a char, or None, which every caller     *)
(* takes for the end of the file.                                          *)
(***************************************************************************)
\* 'A', two continuation bytes, and the lead bytes of a two-, a three- and
\* a four-byte sequence.
UtfBytes == {65, 128, 169, 195, 226, 240}

\* CommU8Provider::take::<SIZE>: read_exact of SIZE bytes; a short read is
\* an error, None, and leaves the reader at the end of the file.
take(file, pos, size) ==
    IF pos + size - 1 > Len(file)
    THEN [st |-> "none", res |-> <<>>, pos |-> Len(file) + 1]
    ELSE [st |-> "some", res |-> SubSeq(file, pos, pos + size - 1),
          pos |-> pos + size]

\* char::from_u32: None for a surrogate and for a value above 0x10FFFF.
from_u32(v) == v <= 1114111 /\ ~(v >= 55296 /\ v <= 57343)

\* read_char: [st, c, from, pos].  `from` is the position of the first
\* byte read, `pos` the position after the call.
read_char(file, pos) ==
    LET t == take(file, pos, 1)
    IN  IF t.st = "none" THEN [st |-> "none", c |-> 0, from |-> pos, pos |-> t.pos]
        ELSE
          LET r == t.res[1]
              size == IF r >= 240 THEN 3 ELSE IF r >= 224 THEN 2
                      ELSE IF r >= 192 THEN 1 ELSE 0
              res == take(file, t.pos, size)
              char_buf ==
                  IF r >= 240
                  THEN (r % 8) * 262144 + (res.res[1] % 64) * 4096
                       + (res.res[2] % 64) * 64 + (res.res[3] % 64)
                  ELSE IF r >= 224
                  THEN (r % 16) * 4096 + (res.res[1] % 64) * 64 + (res.res[2] % 64)
                  ELSE IF r >= 192
                  THEN (res.res[1] % 64) + (r % 32) * 64
                  ELSE r
          IN  IF res.st = "none"
              THEN [st |-> "none", c |-> 0, from |-> pos, pos |-> res.pos]
              ELSE IF from_u32(char_buf)
              THEN [st |-> "some", c |-> char_buf, from |-> pos, pos |-> res.pos]
              ELSE [st |-> "none", c |-> 0, from |-> pos, pos |-> res.pos]

UtfFiles == UNION {[1..n -> UtfBytes] : n \in 0..MaxUtfBytes}

UtfInit ==
    /\ \E f \in UtfFiles : rc = [pc |-> "read", file |-> f, pos |-> 1, chars |-> <<>>]
    /\ vr = IdleVr /\ lm = IdleLm /\ rn = IdleRn /\ mg = IdleMg
    /\ tk = IdleTk /\ ct = IdleCt /\ ps = IdlePs /\ ip = IdleIp

\* while let Some(c) = read_char(reader).await: one call.  Each char is
\* kept with the positions of the bytes it was decoded from.
UtfReadChar ==
    /\ rc.pc = "read"
    /\ LET r == read_char(rc.file, rc.pos)
       IN  IF r.st = "some"
           THEN rc' = [rc EXCEPT !.pos = r.pos,
                                 !.chars = Append(rc.chars,
                                     [c |-> r.c, from |-> r.from, to |-> r.pos - 1])]
           ELSE rc' = [rc EXCEPT !.pos = r.pos, !.pc = "eof"]
    /\ UNCHANGED <<vr, lm, rn, mg, tk, ct, ps, ip>>

UtfNext == UtfReadChar

SpecUtf == UtfInit /\ [][UtfNext]_vars

Continuation(b) == b >= 128 /\ b <= 191

\* A well-formed UTF-8 byte sequence of one scalar value (Unicode, table of
\* well-formed byte sequences).
WellFormedScalar(b) ==
    \/ Len(b) = 1 /\ b[1] <= 127
    \/ Len(b) = 2 /\ b[1] >= 194 /\ b[1] <= 223 /\ Continuation(b[2])
    \/ /\ Len(b) = 3 /\ b[1] >= 224 /\ b[1] <= 239
       /\ Continuation(b[2]) /\ Continuation(b[3])
       /\ (b[1] = 224 => b[2] >= 160)
       /\ (b[1] = 237 => b[2] <= 159)
    \/ /\ Len(b) = 4 /\ b[1] >= 240 /\ b[1] <= 244
       /\ Continuation(b[2]) /\ Continuation(b[3]) /\ Continuation(b[4])
       /\ (b[1] = 240 => b[2] >= 144)
       /\ (b[1] = 244 => b[2] <= 143)

RECURSIVE WellFormed(_)
\* A file that is a concatenation of well-formed sequences.
WellFormed(b) ==
    \/ b = <<>>
    \/ \E n \in 1..Min(4, Len(b)) :
          /\ WellFormedScalar(SubSeq(b, 1, n))
          /\ WellFormed(SubSeq(b, n + 1, Len(b)))

\* C21: malformed UTF-8 is never decoded into a codepoint (every char
\* returned was read from a well-formed sequence) and never taken for the
\* end of the file (the reading ends normally only on well-formed files).
C21_MalformedUtf8Aborts ==
    /\ \A i \in 1..Len(rc.chars) :
          WellFormedScalar(SubSeq(rc.file, rc.chars[i].from, rc.chars[i].to))
    /\ rc.pc = "eof" => WellFormed(rc.file)

(***************************************************************************)
(* IndexPositions, the manifest of the controller of parser.rs in the      *)
(* parser crate: names[i] is the number of put calls made for file i,      *)
(* ids the entries (name_index, that number) in call order.  File indexes  *)
(* count from 0, sequences here from 1.                                    *)
(***************************************************************************)
\* IndexPositions::new
IndexPositions_new(n) == [names |-> [i \in 1..n |-> 0], ids |-> <<>>]

\* IndexPositions::put, with the counter of the file left as it was.
putNoCount(fp, name_index) ==
    IF name_index >= Len(fp.names) THEN [st |-> "panic", fp |-> fp, id |-> 0]
    ELSE LET ids == Append(fp.ids, <<name_index, fp.names[name_index + 1]>>)
         IN  [st |-> "ok", fp |-> [fp EXCEPT !.ids = ids], id |-> Len(ids) - 1]

\* IndexPositions::put: [st, fp, id].  names[name_index] panics on an index
\* out of bounds.
put(fp, name_index) ==
    IF name_index >= Len(fp.names) THEN [st |-> "panic", fp |-> fp, id |-> 0]
    ELSE LET ids == Append(fp.ids, <<name_index, fp.names[name_index + 1]>>)
         IN  [st |-> "ok",
              fp |-> [names |-> [fp.names EXCEPT ![name_index + 1] = @ + 1],
                      ids |-> ids],
              id |-> Len(ids) - 1]

(***************************************************************************)
(* SpecInvert: ParseController::invert of the parser crate.  A task        *)
(* returns at once when names.len() >= next_file; otherwise next_file is   *)
(* past the end of names and put(next_file) panics, so the file loop and   *)
(* the final flush of the task are never reached.                          *)
(***************************************************************************)
\* ParseController::new
InvertInit ==
    /\ \E n \in 0..MaxInvertFiles : \E tc \in 0..MaxInvertTasks :
          ct = [pc |-> "new", files |-> IndexPositions_new(n), tasks_count |-> tc,
                file_index |-> 0, output_index |-> 0, output_files |-> <<>>,
                tasks |-> <<>>, parsed |-> {}]
    /\ vr = IdleVr /\ lm = IdleLm /\ rn = IdleRn /\ mg = IdleMg /\ tk = IdleTk
    /\ rc = IdleRc /\ ps = IdlePs /\ ip = IdleIp

\* create_dir (its error logged) and the tasks spawned.
InvertSpawn ==
    /\ ct.pc = "new"
    /\ ct' = [ct EXCEPT !.pc = "parsing",
                        !.tasks = [w \in 1..ct.tasks_count |-> [pc |-> "build"]]]
    /\ UNCHANGED <<vr, lm, rn, mg, tk, rc, ps, ip>>

\* let mut parser = builder.lock().await.build();
InvertBuild(w) ==
    /\ ct.pc = "parsing" /\ w \in DOMAIN ct.tasks /\ ct.tasks[w].pc = "build"
    /\ ct' = [ct EXCEPT !.tasks[w].pc = "claim"]
    /\ UNCHANGED <<vr, lm, rn, mg, tk, rc, ps, ip>>

\* next_file = file_index.fetch_add(1); under the files lock:
\* if files.names.len() >= next_file { return; } else files.put(next_file).
InvertClaim(w) ==
    /\ ct.pc = "parsing" /\ w \in DOMAIN ct.tasks /\ ct.tasks[w].pc = "claim"
    /\ LET next_file == ct.file_index
           c0 == [ct EXCEPT !.file_index = next_file + 1]
           r == put(ct.files, next_file)
       IN  IF Len(ct.files.names) >= next_file
           THEN ct' = [c0 EXCEPT !.tasks[w].pc = "returned"]
           ELSE ct' = [c0 EXCEPT !.files = r.fp,
                                 !.tasks[w].pc = IF r.st = "ok" THEN "loop"
                                                 ELSE "panicked"]
    /\ UNCHANGED <<vr, lm, rn, mg, tk, rc, ps, ip>>

\* join_all(tasks).await; with the results dropped.
InvertJoin ==
    /\ ct.pc = "parsing"
    /\ \A w \in DOMAIN ct.tasks : ct.tasks[w].pc \in {"returned", "panicked"}
    /\ ct' = [ct EXCEPT !.pc = "merge"]
    /\ UNCHANGED <<vr, lm, rn, mg, tk, rc, ps, ip>>

\* self.merger.merge(files, output_files, destination).await?; Ok(())
InvertMerge ==
    /\ ct.pc = "merge"
    /\ \E r \in {"ok", "err"} : ct' = [ct EXCEPT !.pc = r]
    /\ UNCHANGED <<vr, lm, rn, mg, tk, rc, ps, ip>>

InvertNext ==
    \/ InvertSpawn
    \/ \E w \in 1..MaxInvertTasks : InvertBuild(w)
    \/ \E w \in 1..MaxInvertTasks : InvertClaim(w)
    \/ InvertJoin
    \/ InvertMerge

SpecInvert == InvertInit /\ [][InvertNext]_vars

\* No task gets past its first put: the file loop is dead code.
InvertLoopUnreachable ==
    \A w \in DOMAIN ct.tasks : ct.tasks[w].pc # "loop"

\* C22: with at least one worker, when the tasks have been joined every
\* file index in [0, N) has been opened and parsed to FileEnd, and every
\* worker has made its final spill and ended without panicking.
C22_EveryFileParsedEveryWorkerSpills ==
    (ct.tasks_count >= 1 /\ ct.pc \in {"merge", "ok", "err"}) =>
        /\ \A f \in 0..(Len(ct.files.names) - 1) : f \in ct.parsed
        /\ \A w \in DOMAIN ct.tasks : ct.tasks[w].pc # "panicked"
        /\ Len(ct.output_files) >= ct.tasks_count

\* C23: no input file index is claimed, that is opened for parsing, by
\* more than one worker.  claimed holds (worker, index) for every file a
\* worker has opened and handed to parse.
C23_FileClaimedOnce ==
    \A a \in ct.claimed : \A b \in ct.claimed : a[2] = b[2] => a[1] = b[1]

\* Two workers have each opened a file, and both files have been parsed.
C23_Witness ==
    /\ \E a \in ct.claimed : \E b \in ct.claimed : a[1] # b[1]
    /\ ct.parsed = {0, 1}

(***************************************************************************)
(* SpecPut: the worker tasks call files.lock().await.put(name_index) in    *)
(* any order.  The lock is held over the whole call.  A call with an       *)
(* index out of bounds panics and ends its task.                           *)
(***************************************************************************)
PutInit ==
    /\ \E n \in 1..MaxInvertFiles :
          ip = [pc |-> "run", files |-> IndexPositions_new(n), calls |-> <<>>,
                panicked |-> {}]
    /\ vr = IdleVr /\ lm = IdleLm /\ rn = IdleRn /\ mg = IdleMg /\ tk = IdleTk
    /\ ct = IdleCt /\ rc = IdleRc /\ ps = IdlePs

\* files.lock().await.put(name_index) in task w; calls records the task,
\* the argument and the docId returned.
PutCall(w, name_index) ==
    /\ ip.pc = "run" /\ w \notin ip.panicked /\ Len(ip.calls) < MaxPuts
    /\ LET r == put(ip.files, name_index)
       IN  IF r.st = "ok"
           THEN ip' = [ip EXCEPT !.files = r.fp,
                                 !.calls = Append(ip.calls,
                                     [w |-> w, name_index |-> name_index, id |-> r.id])]
           ELSE ip' = [ip EXCEPT !.panicked = ip.panicked \cup {w}]
    /\ UNCHANGED <<vr, lm, rn, mg, tk, ct, rc, ps>>

PutNext ==
    \E w \in 1..MaxInvertTasks : \E name_index \in 0..MaxInvertFiles :
        PutCall(w, name_index)

SpecPut == PutInit /\ [][PutNext]_vars

\* The number of the first k - 1 put calls made for the file of call k.
EarlierPuts(k) ==
    Cardinality({j \in 1..(k - 1) : ip.calls[j].name_index = ip.calls[k].name_index})

\* C24: the k-th put call to return gives docId k - 1, the manifest holds
\* one entry per call, and the entry of that docId is (fileIdx, j) with j
\* the number of earlier put calls for the same file.
C24_PutReturnsManifestPosition ==
    /\ Len(ip.files.ids) = Len(ip.calls)
    /\ \A k \in 1..Len(ip.calls) :
          /\ ip.calls[k].id = k - 1
          /\ ip.files.ids[k] = <<ip.calls[k].name_index, EarlierPuts(k)>>

\* Three calls from at least two tasks have returned, the last one for a
\* file that had two earlier calls.
C24_Witness ==
    /\ Len(ip.calls) = 3
    /\ ip.calls[1].w # ip.calls[2].w
    /\ ip.files.ids[3][2] = 2

\* C25: when the merger starts, every worker task has terminated and every
\* run listed in output_files has been completely written and finished.
C25_RunsCompleteBeforeMerge ==
    ct.pc = "merge" =>
        /\ \A w \in DOMAIN ct.tasks : ct.tasks[w].pc \in {"done", "panicked"}
        /\ \A i \in 1..Len(ct.output_files) : ct.output_files[i] \in ct.written

\* C26: at the start of every iteration of the merge loop the heap holds
\* at most one entry of a provider, and one of every provider that is not
\* exhausted: a provider that still has terms to give (remaining_size > 0)
\* has its current term in the heap.
C26_HeapHoldsLiveProviders ==
    mg.pc = "loop" =>
        /\ \A a \in mg.p_q : \A b \in mg.p_q : a.v = b.v => a = b
        /\ \A w \in Workers :
              mg.providers[w].remaining_size > 0 => \E e \in mg.p_q : e.v = w

(***************************************************************************)
(* SpecParse: IndexParser::parse of indexed.rs called on a reader over one *)
(* document, one step per round of its while loop.  The call never         *)
(* returns: the function body ends in todo!().  A build either checks      *)
(* integer overflow (the decrement of current_index below 0 panics) or     *)
(* does not (it wraps; -1 stands for usize::MAX).                          *)
(***************************************************************************)
ParsePieces == {<<"a">>, <<"B">>, <<" ">>}

ParseBodies(n) == UNION {[1..m -> ParsePieces] : m \in 0..n}

\* IndexParser::new, and the reader reader_from_file builds.
ParseInit ==
    /\ \E k \in 1..MaxZones : \E n \in 1..MaxSegments :
       \E first \in ParseBodies(MaxParsePieces) : \E rest \in [2..n -> ParseBodies(1)] :
       \E cap \in 0..MaxCapacity : \E oc \in BOOLEAN : \E ind \in 0..MaxDoc :
          LET bodies == [i \in 1..n |-> IF i = 1 THEN first ELSE rest[i]]
          IN  ps = [pc |-> "ready", overflow_checks |-> oc,
                    r |-> RepeatedXmlReader_new(Document(bodies, ZoneList(k)),
                                                ZoneList(k)),
                    ind |-> ind, b_tree |-> <<>>, tree_max_size |-> cap,
                    current_index |-> 0, words |-> <<>>, zone_ends |-> 0,
                    result |-> "none"]
    /\ vr = IdleVr /\ lm = IdleLm /\ rn = IdleRn /\ mg = IdleMg /\ tk = IdleTk
    /\ ct = IdleCt /\ rc = IdleRc /\ ip = IdleIp

\* parser.parse(&mut reader, ind): let mut current_index = reader.zones_len();
ParseCall ==
    /\ ps.pc = "ready"
    /\ ps' = [ps EXCEPT !.pc = "loop", !.current_index = zones_len(ps.r)]
    /\ UNCHANGED <<vr, lm, rn, mg, tk, ct, rc, ip>>

\* One test of `while self.b_tree.len() < self.tree_max_size` and, when it
\* holds, one round: None breaks, a Word is dropped, an AttributeEnd calls
\* transform_zone and decrements current_index.  Leaving the loop reaches
\* todo!(), a panic.  words and zone_ends record the tokens pulled.
ParseLoop ==
    /\ ps.pc = "loop"
    /\ IF Len(ps.b_tree) < ps.tree_max_size
       THEN LET x == RepeatedXmlReader_next_word(ps.r, zone(ps.r))
            IN  CASE x.res.kind = "None" ->
                       ps' = [ps EXCEPT !.r = x.r, !.pc = "panic", !.result = "todo"]
                  [] x.res.kind = "Word" ->
                       ps' = [ps EXCEPT !.r = x.r,
                                        !.words = Append(ps.words,
                                            [w |-> x.res.w, zone |-> zone(ps.r)])]
                  [] x.res.kind = "AttributeEnd" ->
                       IF ps.current_index = 0 /\ ps.overflow_checks
                       THEN ps' = [ps EXCEPT !.r = transform_zone(x.r),
                                             !.zone_ends = ps.zone_ends + 1,
                                             !.pc = "panic", !.result = "overflow"]
                       ELSE ps' = [ps EXCEPT !.r = transform_zone(x.r),
                                             !.zone_ends = ps.zone_ends + 1,
                                             !.current_index =
                                                 IF ps.current_index <= 0 THEN -1
                                                 ELSE ps.current_index - 1]
       ELSE ps' = [ps EXCEPT !.pc = "panic", !.result = "todo"]
    /\ UNCHANGED <<vr, lm, rn, mg, tk, ct, rc, ip>>

ParseNext == ParseCall \/ ParseLoop

SpecParse == ParseInit /\ [][ParseNext]_vars

\* The number of Word tokens pulled so far that are the term w.
Occurrences(w) == Cardinality({i \in 1..Len(ps.words) : ps.words[i].w = w})

\* The bit of a zone in CommonSegments: title is bit 0, text bit 1.
ZoneBit(z) == IF z = ZoneName(1) THEN 1 ELSE 2

\* C27: after parse has pulled Word tokens for docId ind, the accumulator
\* holds every term with totalUseCount equal to its number of occurrences,
\* and its posting for ind has that number of occurrences and the bit of
\* the zone the word was read in.
C27_ParseCountsWords ==
    \A i \in 1..Len(ps.words) :
        \E j \in 1..Len(ps.b_tree) :
            LET t == ps.b_tree[j]
            IN  /\ t.term = ps.words[i].w
                /\ t.use_count = Occurrences(t.term)
                /\ \E e \in 1..Len(t.indexes.start) :
                      /\ t.indexes.start[e].k = ps.ind
                      /\ t.indexes.start[e].v.use_count = Occurrences(t.term)
                      /\ (t.indexes.start[e].v.segments
                             \div ZoneBit(ps.words[i].zone)) % 2 = 1

\* The distinct terms among the Word tokens pulled so far.
DistinctWords == {ps.words[i].w : i \in 1..Len(ps.words)}

\* C28: the accumulator never holds more than tree_max_size distinct
\* terms; parse pulls no token beyond the one that fills it (the distinct
\* terms pulled never exceed the capacity), and a call that ends with the
\* accumulator full, and only such a call, has returned Full.
C28_FullAtCapacity ==
    /\ Len(ps.b_tree) <= ps.tree_max_size
    /\ ps.tree_max_size >= 1 => Cardinality(DistinctWords) <= ps.tree_max_size
    /\ ps.pc \in {"panic", "returned"} =>
          (ps.result = "Full" <=> Len(ps.b_tree) = ps.tree_max_size)

\* C29: every call of parse returns, with Full, ZoneEnd or FileEnd; it
\* returns ZoneEnd as soon as the tokenizer has yielded an AttributeEnd
\* (the zone advanced), and FileEnd when the stream has ended.
C29_ParseReturnsCallback ==
    /\ ps.pc # "panic"
    /\ ps.pc = "returned" => ps.result \in {"Full", "ZoneEnd", "FileEnd"}
    /\ ps.zone_ends >= 1 =>
          (ps.pc = "returned" /\ ps.result = "ZoneEnd" /\ ps.zone_ends = 1)

(***************************************************************************)
(* SpecPush: SortedLinkedMap::push called on one map, any keys and         *)
(* postings in any order; pushed records the last call.                    *)
(***************************************************************************)
PushInit ==
    /\ lm = [pc |-> "push", m |-> SortedLinkedMap_new,
             pushed |-> [done |-> FALSE]]
    /\ vr = IdleVr /\ rn = IdleRn /\ mg = IdleMg /\ tk = IdleTk /\ ct = IdleCt
    /\ rc = IdleRc /\ ps = IdlePs /\ ip = IdleIp

PushCall ==
    /\ lm.pc = "push" /\ len(lm.m) < MaxMapSize
    /\ \E k \in 0..MaxKey : \E v \in PostingSet :
          LET out == push(lm.m, k, v)
          IN  lm' = [lm EXCEPT !.m = out,
                               !.pushed = [done |-> TRUE, m |-> lm.m, key |-> k,
                                           value |-> v, out |-> out]]
    /\ UNCHANGED <<vr, rn, mg, tk, ct, rc, ps, ip>>

PushNext == PushCall

SpecPush == PushInit /\ [][PushNext]_vars

\* C30: push(doc, posting) adds the entry when doc is absent; when doc is
\* present no entry is added and the stored posting is the old one
\* combined with the new one (occurrences summed, zone masks ORed).
C30_PushInsertsOrCombines ==
    lm.pushed.done =>
        LET before == lm.pushed.m
            out == lm.pushed.out
            key == lm.pushed.key
        IN  IF key \notin KeySet(before)
            THEN /\ KeySet(out) = KeySet(before) \cup {key}
                 /\ Len(out.start) = Len(before.start) + 1
                 /\ len(out) = len(before) + 1
                 /\ PostingAt(out.start, key) = lm.pushed.value
            ELSE /\ KeySet(out) = KeySet(before)
                 /\ Len(out.start) = Len(before.start)
                 /\ len(out) = len(before)
                 /\ PostingAt(out.start, key) =
                        UsageData(PostingAt(before.start, key).use_count
                                      + lm.pushed.value.use_count,
                                  BitOr(PostingAt(before.start, key).segments,
                                        lm.pushed.value.segments))

(***************************************************************************)
(* SpecCombine: three accumulated terms of one key, of any workers and     *)
(* docId intervals, are combined as (a.b).c and as a.(b.c), and a is       *)
(* combined with the term IndexedTerm::new returns.                        *)
(***************************************************************************)
IndexedTerm_new(term) == IndexedTerm(term, 0, SortedLinkedMap_new)

CombineTerms == {AccTerm(<<97>>, w, d) : w \in Workers, d \in DocSets}

NoTerm == [st |-> "none"]

CombineInit ==
    /\ \E a \in CombineTerms : \E b \in CombineTerms : \E c \in CombineTerms :
          lm = [pc |-> "combine", a |-> a, b |-> b, c |-> c,
                left |-> NoTerm, right |-> NoTerm, ae |-> NoTerm]
    /\ vr = IdleVr /\ rn = IdleRn /\ mg = IdleMg /\ tk = IdleTk /\ ct = IdleCt
    /\ rc = IdleRc /\ ps = IdlePs /\ ip = IdleIp

\* a.combine(b); a.combine(c)
CombineLeft ==
    /\ lm.pc = "combine" /\ lm.left = NoTerm
    /\ LET ab == combine(lm.a, lm.b)
       IN  lm' = [lm EXCEPT !.left = IF ab.st # "ok" THEN ab ELSE combine(ab.t, lm.c)]
    /\ UNCHANGED <<vr, rn, mg, tk, ct, rc, ps, ip>>

\* b.combine(c); a.combine(b)
CombineRight ==
    /\ lm.pc = "combine" /\ lm.right = NoTerm
    /\ LET bc == combine(lm.b, lm.c)
       IN  lm' = [lm EXCEPT !.right = IF bc.st # "ok" THEN bc ELSE combine(lm.a, bc.t)]
    /\ UNCHANGED <<vr, rn, mg, tk, ct, rc, ps, ip>>

\* a.combine(IndexedTerm::new(key))
CombineEmpty ==
    /\ lm.pc = "combine" /\ lm.ae = NoTerm
    /\ lm' = [lm EXCEPT !.ae = combine(lm.a, IndexedTerm_new(lm.a.term))]
    /\ UNCHANGED <<vr, rn, mg, tk, ct, rc, ps, ip>>

CombineNext == CombineLeft \/ CombineRight \/ CombineEmpty

SpecCombine == CombineInit /\ [][CombineNext]_vars

\* C31: combine(a, empty) is a, and combine(combine(a, b), c) equals
\* combine(a, combine(b, c)) in use_count and in the whole posting map.
C31_CombineIdentityAssociative ==
    lm.pc = "combine" =>
        /\ lm.ae # NoTerm =>
              /\ lm.ae.st = "ok"
              /\ lm.ae.t.use_count = lm.a.use_count
              /\ iter(lm.ae.t.indexes) = iter(lm.a.indexes)
        /\ (lm.left # NoTerm /\ lm.right # NoTerm) =>
              /\ lm.left.st = "ok" /\ lm.right.st = "ok"
              /\ lm.left.t.use_count = lm.right.t.use_count
              /\ iter(lm.left.t.indexes) = iter(lm.right.t.indexes)

\* C32: the term written for a key does not depend on the order of the runs:
\* whichever of two heap entries of equal key is popped first (the heap
\* breaks the tie by the provider's position in the list of runs), combining
\* the other into it gives the same use_count and the same posting map.
C32_OrderIndependent ==
    mg.pc = "loop" =>
        \A e \in mg.p_q : \A o \in mg.p_q :
            e.t.term = o.t.term =>
                LET x == combine(e.t, o.t)
                    y == combine(o.t, e.t)
                IN  /\ x.st = "ok" /\ y.st = "ok"
                    /\ x.t.use_count = y.t.use_count
                    /\ iter(x.t.indexes) = iter(y.t.indexes)

RECURSIVE PostingListPairs(_, _)
\* The (Posting, docDelta) pairs of entries i .. Len(s)-1 of a posting list.
PostingListPairs(s, i) ==
    IF i >= Len(s) THEN <<>>
    ELSE UsageData_variable_save(s[i].v)
         \o variable_save_usize(s[i + 1].k - s[i].k)
         \o PostingListPairs(s, i + 1)

\* { count; firstDocId; (Posting; docDelta){count-1}; Posting }
PostingListLayout(s) ==
    variable_save_usize(Len(s)) \o variable_save_usize(s[1].k)
    \o PostingListPairs(s, 1) \o UsageData_variable_save(s[Len(s)].v)

\* C33: when a non-empty posting map is written by variable_save, its bytes
\* are count, first docId, (Posting, docDelta) for the first count-1
\* entries and the last Posting, and variable_load of those bytes returns an
\* equal map and stops right after them.
C33_PostingListRoundTrip ==
    [][(/\ lm.pc = "run" /\ lm'.pc = "run"
        /\ lm.disk = <<>> /\ lm'.disk # <<>>)
       => LET wrote == SortedLinkedMap_variable_save(lm.a).bytes
              got == SortedLinkedMap_variable_load(lm'.disk, 1)
          IN  /\ wrote = PostingListLayout(iter(lm.a))
              /\ got.st = "ok"
              /\ iter(got.v) = iter(lm.a)
              /\ got.pos = Len(wrote) + 1]_vars

\* The cursors written for the block that cursor i belongs to.
BlockOf(i) ==
    {j \in 1..Len(rn.sv.cursors) :
        rn.sv.cursors[j].lexical_pointer = rn.sv.cursors[i].lexical_pointer}

\* The prefix length written at the start of cursor i's block.
BlockPrefixLen(i) ==
    variable_load(rn.sv.lexical_part, rn.sv.cursors[i].lexical_pointer + 1)

\* The prefix bytes written after it.
BlockPrefix(i) ==
    LET p == BlockPrefixLen(i)
    IN  SubSeq(rn.sv.lexical_part, p.pos, p.pos + p.v - 1)

RECURSIVE CommonBytes(_, _)
\* Length of the longest common byte prefix of two strings.
CommonBytes(f, s) ==
    IF f = <<>> \/ s = <<>> \/ f[1] # s[1] THEN 0
    ELSE 1 + CommonBytes(Tail(f), Tail(s))

SetMin(S) == CHOOSE x \in S : \A y \in S : x <= y

\* Longest common byte prefix of all terms of cursor i's block.
BlockCommonBytes(i) ==
    SetMin({CommonBytes(rn.tree[j].term, rn.tree[k].term) :
                j \in BlockOf(i), k \in BlockOf(i)})

\* Longest common prefix of whole chars of the terms of a block of two or more.
BlockCommonChars(i) ==
    SetMin({count_same(rn.tree[jk[1]].term, rn.tree[jk[2]].term) :
                jk \in {x \in BlockOf(i) \X BlockOf(i) : x[1] # x[2]}})

RunWritten == rn.pc \in {"written", "read", "done", "stuck"}

C35_BlockWithinSize ==
    /\ rn.pc # "idle" => Len(rn.sv.buffer_items) <= rn.sv.max_part_size
    /\ RunWritten =>
          \A i \in 1..Len(rn.sv.cursors) :
              /\ Cardinality(BlockOf(i)) <= rn.sv.max_part_size
              /\ rn.sv.cursors[i].lexical_index < rn.sv.max_part_size
              /\ rn.sv.cursors[i].lexical_index =
                     Cardinality({j \in BlockOf(i) : j < i})

\* With B = 2 a run of three terms was written whose third term shares a
\* char with the second and still starts a new block: the first block was full.
C35_Witness ==
    /\ rn.pc = "written" /\ rn.sv.max_part_size = 2 /\ Len(rn.sv.cursors) = 3
    /\ rn.sv.cursors[2].lexical_index = 1
    /\ rn.sv.cursors[3].lexical_index = 0
    /\ count_same(rn.tree[2].term, rn.tree[3].term) > 0

RECURSIVE ReadAll(_)
\* The terms successive next_term calls return until one returns no term.
ReadAll(pv) ==
    LET r == next_term(pv)
    IN  IF r.st = "some" THEN <<r.term>> \o ReadAll(r.pv) ELSE <<>>

\* The workers whose accumulator was empty when flush_to wrote it.
EmptyRuns == {w \in Workers : mg.trees[w] = <<>>}

\* C36: a run written from an empty accumulator has header 0 and no cursor
\* and no byte in its parts; its provider is never in the heap and none of
\* its reads fails; and when one of the two runs is empty and merge has
\* returned, the FinalDictionary is the other run as its reader returns it.
C36_EmptyRunsOmitted ==
    mg.pc # "idle" =>
        /\ \A w \in EmptyRuns :
              /\ mg.providers[w].dictionary =
                     [header |-> 0, cursors |-> <<>>,
                      lexical_part |-> <<>>, index_part |-> <<>>]
              /\ \A e \in mg.p_q : e.v # w
              /\ w \notin mg.tasks \cup mg.failed \cup mg.hung \cup mg.read_failed
        /\ mg.pc = "done" =>
              \A w \in EmptyRuns : \A o \in Workers \ {w} :
                  /\ mg.final = ReadAll(IndexTermProvider_new(mg.providers[o].dictionary))
                  /\ mg.saver.header = Len(mg.final)

\* merge returned a FinalDictionary with a term in it although the first
\* run was empty.
C36_Witness ==
    /\ mg.pc = "done" /\ mg.trees[0] = <<>> /\ mg.trees[1] # <<>>
    /\ Len(mg.final) >= 1

\* C37: after any pushes and ors, len() of a map is the number of entries
\* its iteration yields, so the count variable_save writes first is the
\* number of entries it writes.
C37_LenIsEntryCount ==
    lm.pc = "run" =>
        /\ len(lm.a) = Len(iter(lm.a))
        /\ len(lm.b) = Len(iter(lm.b))

(***************************************************************************)
(* SpecGet: a run written by flush_to is read twice, term by term: by      *)
(* successive next_term calls of one provider, and by Dictionary::get_term *)
(* on each cursor record of dictionary.txt.                                *)
(***************************************************************************)
RECURSIVE SkipParts(_, _, _)
\* for _ in 0..lexical_index { skip = variable_load; seek(Current(skip)) }
SkipParts(file, pos, n) ==
    IF n = 0 THEN [st |-> "ok", pos |-> pos]
    ELSE LET skip == variable_load(file, pos)
         IN  IF skip.st # "ok" THEN [st |-> skip.st, pos |-> skip.pos]
             ELSE SkipParts(file, skip.pos + skip.v, n - 1)

\* Dictionary::get_term: [st, term]; st is "ok", "err" (an Err returned), or
\* "eof"/"panic" when the call does not return.
get_term(files, cursor) ==
    LET start == ReadPart(files.lexical_part, cursor.lexical_pointer + 1)
    IN  IF start.st # "ok" THEN [st |-> start.st]
        ELSE LET sk == SkipParts(files.lexical_part, start.pos, cursor.lexical_index)
             IN  IF sk.st # "ok" THEN [st |-> sk.st]
                 ELSE LET sfx == ReadPart(files.lexical_part, sk.pos)
                      IN  IF sfx.st # "ok" THEN [st |-> sfx.st]
                          ELSE LET list == SortedLinkedMap_variable_load(
                                               files.index_part,
                                               cursor.indexes_pointer + 1)
                               IN  IF list.st # "ok" THEN [st |-> list.st]
                                   ELSE [st |-> "ok",
                                         term |-> IndexedTerm(start.v \o sfx.v,
                                                              cursor.use_count, list.v)]

GetInit ==
    /\ \E tree \in Trees(0) : \E b \in 1..MaxBlock :
          LET sv == flush_to(tree, b)
          IN  rn = [pc |-> "get", tree |-> tree, sv |-> sv,
                    pv |-> IndexTermProvider_new(Files(sv)),
                    seq |-> <<>>, reading |-> TRUE, rand |-> <<>>]
    /\ vr = IdleVr /\ lm = IdleLm /\ mg = IdleMg /\ tk = IdleTk /\ ct = IdleCt
    /\ rc = IdleRc /\ ps = IdlePs /\ ip = IdleIp

\* The next next_term call of the sequential reader; it is the last one when
\* it returns None or does not return.
GetNextTerm ==
    /\ rn.pc = "get" /\ rn.reading
    /\ LET r == next_term(rn.pv)
       IN  rn' = [rn EXCEPT !.pv = r.pv,
                            !.seq = Append(rn.seq,
                                           IF r.st = "some"
                                           THEN [st |-> "some", term |-> r.term]
                                           ELSE [st |-> r.st]),
                            !.reading = (r.st = "some")]
    /\ UNCHANGED <<vr, lm, mg, tk, ct, rc, ps, ip>>

\* get_term on the next cursor record.
GetTerm ==
    /\ rn.pc = "get" /\ Len(rn.rand) < Len(rn.sv.cursors)
    /\ rn' = [rn EXCEPT !.rand = Append(rn.rand,
                            get_term(Files(rn.sv), rn.sv.cursors[Len(rn.rand) + 1]))]
    /\ UNCHANGED <<vr, lm, mg, tk, ct, rc, ps, ip>>

GetNext == GetNextTerm \/ GetTerm

SpecGet == GetInit /\ [][GetNext]_vars

RECURSIVE IndexBytesBefore(_, _)
\* Number of bytes the posting lists of the terms before position i take.
IndexBytesBefore(tree, i) ==
    IF i <= 1 THEN 0
    ELSE IndexBytesBefore(tree, i - 1)
         + Len(SortedLinkedMap_variable_save(tree[i - 1].indexes).bytes)

\* C38: for every term of a written run, get_term on its cursor returns the
\* term (string and postings) that the sequential reader returns at that
\* position, and idxPtr is the offset of the term's posting list.
C38_RandomAccessEqualsSequential ==
    rn.pc = "get" =>
        /\ \A i \in 1..Len(rn.sv.cursors) :
              rn.sv.cursors[i].indexes_pointer = IndexBytesBefore(rn.tree, i)
        /\ \A i \in 1..Len(rn.tree) :
              (i <= Len(rn.rand) /\ i <= Len(rn.seq)) =>
                  /\ rn.rand[i].st = "ok"
                  /\ rn.seq[i].st = "some"
                  /\ rn.rand[i].term = rn.seq[i].term

\* The guards of MergeNext: some step of the merge task or of a spawned
\* task is possible.
MergeCanStep ==
    \/ mg.pc \in {"prime", "loop", "finished", "removed"}
    \/ mg.pc = "advance" /\ (mg.tasks # {} \/ mg.hung = {})

RunTermCount == Len(mg.trees[0]) + Len(mg.trees[1])

\* C39: the merge loop ends: in every state merge has either returned (with
\* a result, an error or a panic) or the merge task or one of its spawned
\* tasks can still take a step; and the loop pops at most as many times as
\* the runs hold terms.
C39_MergeLoopTerminates ==
    /\ mg.pc \in {"finished", "removed", "done", "error", "panic"} \/ MergeCanStep
    /\ mg.term_count <= RunTermCount

\* No put of the controller ever succeeds: the manifest stays empty and no
\* file is opened.
InvertManifestEmpty ==
    ct.pc \in {"new", "parsing", "merge", "ok", "err"} =>
        ct.files.ids = <<>> /\ ct.parsed = {}

\* C40: every manifest entry names an existing input file that a worker
\* opened and traversed, and a file in which no zone was traversed has no
\* entry.  It holds only because InvertManifestEmpty does: no state has a
\* manifest entry or a traversal.
C40_ManifestMatchesTraversals ==
    ct.pc \in {"new", "parsing", "merge", "ok", "err"} =>
        /\ \A k \in 1..Len(ct.files.ids) :
              /\ ct.files.ids[k][1] < Len(ct.files.names)
              /\ ct.files.ids[k][1] \in ct.parsed
        /\ \A f \in 0..(Len(ct.files.names) - 1) :
              f \notin ct.parsed =>
                  ct.files.names[f + 1] = 0

====
